---- MODULE Spec2Model ----
(***************************************************************************)
(* A model of github.com/Eun/xtemplate: the allow-list built by FuncMap,   *)
(* the gate check at the head of every namespace method, and the handling  *)
(* of the return signal by Execute / ExecuteTemplate and by tmpl.Exec.     *)
(***************************************************************************)
EXTENDS Integers, Sequences, FiniteSets, TLC

VARIABLES
    pc,               \* "config" | "ready" | "running" | "done" | "built"
    allowedFunctions, \* the ...AllowedFunctions argument given to FuncMap
    rootCtx,          \* rootContext: [allowedFunctionSet]
    m,                \* the identifiers registered in the template.FuncMap
    handle,           \* the namespace handle a script obtained last
    last,             \* the outcome of the last method call on a handle
    d1, d2,           \* two descriptor lists (SpecBuild)
    built,            \* what createAllowedFunctionSet made of d1, d2, d1 \o d2
    wr,               \* what the io.Writer given to Execute has received
    bufs,             \* the bytes.Buffer of every tmpl.Exec in progress, innermost last
    execErr,          \* the error Execute returned
    nodes,            \* how many template nodes the evaluation has walked
    lastExec,         \* how the tmpl.Exec that finished last ended, and its results
    ended,            \* how Execute ended, and the writer just before
    raised,           \* the error that left a node last, and the tmpl.Exec depth there
    args,             \* the arguments of the conv / slice function under evaluation
    result,           \* what that function returned: [fn, via, of, val, err]
    heap,             \* the backing arrays of the Go slices, each a sequence of cells
    held,             \* the collections a template holds: [hdr, was (contents when returned), by]
    evals             \* the evaluations running concurrently on one FuncMap

gateVars == <<handle, last>>
buildVars == <<d1, d2, built>>
execVars == <<wr, bufs, execErr, nodes, lastExec, ended, raised>>
pureVars == <<args, result>>
heapVars == <<heap, held>>

vars == <<pc, allowedFunctions, rootCtx, m, handle, last, d1, d2, built,
          wr, bufs, execErr, nodes, lastExec, ended, raised, args, result,
          heap, held, evals>>

-----------------------------------------------------------------------------
(* Bounds *)

\* longest descriptor list handed to FuncMap
MaxDescriptors == 2
\* longest of the two descriptor lists that SpecBuild joins
MaxPart == 2
\* most template nodes one evaluation walks (SpecExec)
MaxNodes == 5

-----------------------------------------------------------------------------
(* package funcs *)

\* funcs.Func{Namespace, Name}
Func(ns, name) == [Namespace |-> ns, Name |-> name]

NoFunc == Func("", "")

\* funcs.NamespacesAndTheirFunctions, restricted to the methods this model calls
NamespacesAndTheirFunctions ==
    [ns \in {"conv", "cmp", "dict", "filepath", "json", "os", "path",
             "regexp", "slice", "strings", "tmpl", "url"} |->
        CASE ns = "conv"     -> {"ToString", "ToInt"}
          [] ns = "cmp"      -> {"Or"}
          [] ns = "dict"     -> {"New"}
          [] ns = "filepath" -> {"Base"}
          [] ns = "json"     -> {"Marshal", "Valid"}
          [] ns = "os"       -> {"Getenv", "Hostname", "Setenv"}
          [] ns = "path"     -> {"Base"}
          [] ns = "regexp"   -> {"FindAllString", "FindAllStringIndex"}
          [] ns = "slice"    -> {"New"}
          [] ns = "strings"  -> {"ToLower", "Index", "IndexAny"}
          [] ns = "tmpl"     -> {"Exec"}
          [] ns = "url"      -> {"JoinPath", "PathEscape"}]

Namespaces == DOMAIN NamespacesAndTheirFunctions

\* the generated identifiers funcs.<Namespace><Name>
CmpOr == Func("cmp", "Or")
ConvToString == Func("conv", "ToString")
ConvToInt == Func("conv", "ToInt")
DictNew == Func("dict", "New")
FilePathBase == Func("filepath", "Base")
JSONMarshal == Func("json", "Marshal")
JSONValid == Func("json", "Valid")
OSGetenv == Func("os", "Getenv")
OSHostname == Func("os", "Hostname")
OSSetenv == Func("os", "Setenv")
PathBase == Func("path", "Base")
RegexpFindAllString == Func("regexp", "FindAllString")
RegexpFindAllStringIndex == Func("regexp", "FindAllStringIndex")
SliceNew == Func("slice", "New")
StringsToLower == Func("strings", "ToLower")
StringsIndex == Func("strings", "Index")
StringsIndexAny == Func("strings", "IndexAny")
TmplExec == Func("tmpl", "Exec")
URLJoinPath == Func("url", "JoinPath")
URLPathEscape == Func("url", "PathEscape")

\* every (namespace, name) pair of the table
KnownFuncs ==
    UNION {{Func(ns, name) : name \in NamespacesAndTheirFunctions[ns]} : ns \in Namespaces}

\* the generated per-namespace collections (funcs.Funcs values)
Cmp == <<CmpOr>>
Conv == <<ConvToInt, ConvToString>>
Dict == <<DictNew>>
FilePath == <<FilePathBase>>
JSON == <<JSONMarshal, JSONValid>>
OS == <<OSGetenv, OSHostname, OSSetenv>>
Path == <<PathBase>>
Regexp == <<RegexpFindAllString, RegexpFindAllStringIndex>>
Slice == <<SliceNew>>
Strings == <<StringsIndex, StringsIndexAny, StringsToLower>>
Tmpl == <<TmplExec>>
URL == <<URLJoinPath, URLPathEscape>>

\* the safe collection with the os namespace in it
SafeWithOS == Cmp \o Conv \o Dict \o FilePath \o JSON \o OS \o Path \o Regexp
              \o Slice \o Strings \o Tmpl \o URL

\* funcs.Safe = slices.Concat(Cmp, Conv, Dict, FilePath, JSON, Path, Regexp,
\*                            Slice, Strings, Tmpl, URL)
Safe == Cmp \o Conv \o Dict \o FilePath \o JSON \o Path \o Regexp
        \o Slice \o Strings \o Tmpl \o URL

\* funcs.All: every function, the os namespace included
All == Safe \o OS

\* Func.Functions(): a single Func is the one-element list of itself
Functions(f) == <<f>>

\* descriptors an embedder can write that name nothing in the table
UnknownNamespace == Func("net", "Dial")
UnknownFunction == Func("url", "Parse")

-----------------------------------------------------------------------------
(* xtemplate.go: the allow-list *)

\* the loop body with the namespace recorded before the function is looked up
addAllowedFunctionNamespaceFirst(acc, allowedFunction) ==
    LET namespace == allowedFunction.Namespace
        functionName == allowedFunction.Name
    IN  IF namespace \notin DOMAIN NamespacesAndTheirFunctions
        THEN acc
        ELSE IF functionName \notin NamespacesAndTheirFunctions[namespace]
        THEN [acc EXCEPT !.namespaceSet = @ \cup {namespace}]
        ELSE [namespaceSet |-> acc.namespaceSet \cup {namespace},
              functionSet  |-> acc.functionSet \cup {Func(namespace, functionName)}]

\* one iteration of the loop of createAllowedFunctionSet over allFunctions
addAllowedFunction(acc, allowedFunction) ==
    LET namespace == allowedFunction.Namespace
        functionName == allowedFunction.Name
    IN  IF namespace \notin DOMAIN NamespacesAndTheirFunctions
        THEN acc                                              \* continue
        ELSE IF functionName \notin NamespacesAndTheirFunctions[namespace]
        THEN acc                                              \* continue
        ELSE [namespaceSet |-> acc.namespaceSet \cup {namespace},
              functionSet  |-> acc.functionSet \cup {Func(namespace, functionName)}]

\* allFunctions = f.Functions() in place of the append: the last descriptor wins
allFunctionsOfLast(afs) ==
    IF afs = <<>> THEN <<>> ELSE afs[Len(afs)]

\* allFunctions = append(allFunctions, f.Functions()...) for every f
RECURSIVE allFunctionsOf(_)
allFunctionsOf(afs) ==
    IF afs = <<>> THEN <<>> ELSE Head(afs) \o allFunctionsOf(Tail(afs))

\* "for _, allowedFunction := range allFunctions", from element i on; acc holds
\* namespaceSet and functionSet (an element that was skipped leaves acc as it is)
RECURSIVE rangeAllowed(_, _, _)
rangeAllowed(allFunctions, i, acc) ==
    IF i > Len(allFunctions) THEN acc
    ELSE LET next == addAllowedFunction(acc, allFunctions[i])
         IN  IF next = acc
             THEN rangeAllowed(allFunctions, i + 1, acc)
             ELSE rangeAllowed(allFunctions, i + 1, next)

\* createAllowedFunctionSet(allowedFunctions) (namespaceSet, functionSet)
createAllowedFunctionSet(afs) ==
    rangeAllowed(allFunctionsOf(afs), 1, [namespaceSet |-> {}, functionSet |-> {}])

\* m[ns] = ... without the lookup in allowedNamespaceSet
registerNamespaceAlways(allowedNamespaceSet, ns) == {ns}

\* "if _, ok := allowedNamespaceSet[ns]; ok { m[ns] = ... }"
registerNamespace(allowedNamespaceSet, ns) ==
    IF ns \in allowedNamespaceSet THEN {ns} ELSE {}

\* FuncMap that registers "return" only next to a permitted namespace
FuncMapReturnIfPermitted(afs) ==
    LET sets == createAllowedFunctionSet(afs)
    IN  [m |-> IF sets.namespaceSet = {} THEN {} ELSE {"return"} \cup sets.namespaceSet,
         rootCtx |-> [allowedFunctionSet |-> sets.functionSet]]

\* FuncMap(t, allowedFunctions...): the keys of the returned map and the
\* rootContext its closures capture
FuncMap(afs) ==
    LET sets == createAllowedFunctionSet(afs)
        allowedNamespaceSet == sets.namespaceSet
    IN  [m |-> {"return"}
               \cup registerNamespace(allowedNamespaceSet, "conv")
               \cup registerNamespace(allowedNamespaceSet, "cmp")
               \cup registerNamespace(allowedNamespaceSet, "dict")
               \cup registerNamespace(allowedNamespaceSet, "filepath")
               \cup registerNamespace(allowedNamespaceSet, "json")
               \cup registerNamespace(allowedNamespaceSet, "os")
               \cup registerNamespace(allowedNamespaceSet, "path")
               \cup registerNamespace(allowedNamespaceSet, "regexp")
               \cup registerNamespace(allowedNamespaceSet, "slice")
               \cup registerNamespace(allowedNamespaceSet, "strings")
               \cup registerNamespace(allowedNamespaceSet, "tmpl")
               \cup registerNamespace(allowedNamespaceSet, "url"),
         rootCtx |-> [allowedFunctionSet |-> sets.functionSet]]

-----------------------------------------------------------------------------
(* Dynamic values and errors *)

\* a dynamic value: its kind and the text fmt.Sprint renders for it
Value(kind, text) == [kind |-> kind, text |-> text]

\* Go's nil / the zero result returned next to an error
NoValue == Value("nil", "<nil>")

Err(kind, fn, value) == [kind |-> kind, fn |-> fn, value |-> value, wrap |-> <<>>]

NoError == Err("nil", NoFunc, NoValue)

\* &FuncNotAllowedError{Func: fn}
FuncNotAllowedError(fn) == Err("notallowed", fn, NoValue)

\* ReturnError{Value: value}
ReturnError(value) == Err("return", NoFunc, value)

\* an error of the host library function behind fn (url.JoinPath's parse
\* error, regexp.Compile's error, ErrAtLeastOneArgumentIsRequired, ...)
HostError(fn) == Err("host", fn, NoValue)

\* fmt.Errorf("<label>: %w", err)
Wrap(label, err) == [err EXCEPT !.wrap = <<label>> \o err.wrap]

-----------------------------------------------------------------------------
(* fn_*.go: the namespace methods *)

\* classes of (well-typed) arguments of a method call:
\*   "valid"            the host function succeeds on them
\*   "invalid"          the host function returns its own error on them
\*   "mapNonStringKey"  a map[any]any holding a key that is not a string
ArgClasses == {"valid", "invalid", "mapNonStringKey"}

\* methods with a parameter of type any or ...any
TakesAny == {CmpOr, ConvToString, ConvToInt, DictNew, JSONMarshal, SliceNew, TmplExec}

\* methods whose host function can return an error of its own
CanFail == {CmpOr, ConvToInt, JSONMarshal, OSHostname, OSSetenv, RegexpFindAllString,
            RegexpFindAllStringIndex, TmplExec, URLJoinPath}

ArgsOf(fn) ==
    {"valid"} \cup (IF fn \in CanFail THEN {"invalid"} ELSE {})
              \cup (IF fn \in TakesAny THEN {"mapNonStringKey"} ELSE {})

\* what a method call leaves behind: its results, the steps it executed in
\* order ("convert", "gate", "host"), and the allow-list map it shares with
\* every other handle
Outcome(res, err, steps, set) ==
    [res |-> res, err |-> err, steps |-> steps, allowedFunctionSet |-> set]

\* the host library function behind fn, run on arguments of class arg
Host(fn, arg) ==
    IF arg = "invalid" /\ fn \in CanFail
    THEN [res |-> NoValue, err |-> HostError(fn)]
    ELSE [res |-> Value("string", "<" \o fn.Namespace \o "." \o fn.Name \o ">"),
          err |-> NoError]

\* the shared body with a denied key written into the map it was looked up in
GatedCallInsertingKey(ctx, fn, arg) ==
    IF fn \notin ctx.allowedFunctionSet
    THEN Outcome(NoValue, FuncNotAllowedError(fn), <<"gate">>,
                 ctx.allowedFunctionSet \cup {fn})
    ELSE Outcome(Host(fn, arg).res, Host(fn, arg).err, <<"gate", "host">>,
                 ctx.allowedFunctionSet)

\* the body shared by the methods: the check against funcs.<fn>, then the host
\* function (URL.JoinPath stands for all of them)
GatedCall(ctx, fn, arg) ==
    IF fn \notin ctx.allowedFunctionSet
    THEN Outcome(NoValue, FuncNotAllowedError(fn), <<"gate">>, ctx.allowedFunctionSet)
    ELSE Outcome(Host(fn, arg).res, Host(fn, arg).err, <<"gate", "host">>,
                 ctx.allowedFunctionSet)

\* func (ctx Cmp) Or(s ...any): the check, then len(s) == 0, then cmp.Or
Cmp_Or(ctx, arg) ==
    IF CmpOr \notin ctx.allowedFunctionSet
    THEN Outcome(NoValue, FuncNotAllowedError(CmpOr), <<"gate">>, ctx.allowedFunctionSet)
    ELSE Outcome(Host(CmpOr, arg).res, Host(CmpOr, arg).err, <<"gate", "host">>,
                 ctx.allowedFunctionSet)

\* func (ctx Strings) IndexAny(s1, chars string): strings.IndexAny, no check
Strings_IndexAny(ctx, arg) ==
    Outcome(Host(StringsIndexAny, arg).res, Host(StringsIndexAny, arg).err, <<"host">>,
            ctx.allowedFunctionSet)

\* func (ctx Regexp) FindAllStringIndex: the check reads funcs.RegexpFindAllString
Regexp_FindAllStringIndex(ctx, arg) ==
    IF RegexpFindAllString \notin ctx.allowedFunctionSet
    THEN Outcome(NoValue, FuncNotAllowedError(RegexpFindAllString), <<"gate">>,
                 ctx.allowedFunctionSet)
    ELSE Outcome(Host(RegexpFindAllStringIndex, arg).res,
                 Host(RegexpFindAllStringIndex, arg).err, <<"gate", "host">>,
                 ctx.allowedFunctionSet)

\* func (ctx JSON) Marshal(v any): the map[any]any conversion, which fails on a
\* key that is not a string, then the check, then json.Marshal
JSON_Marshal(ctx, arg) ==
    IF arg = "mapNonStringKey"
    THEN Outcome(NoValue, HostError(JSONMarshal), <<"convert">>, ctx.allowedFunctionSet)
    ELSE IF JSONMarshal \notin ctx.allowedFunctionSet
    THEN Outcome(NoValue, FuncNotAllowedError(JSONMarshal), <<"convert", "gate">>,
                 ctx.allowedFunctionSet)
    ELSE Outcome(Host(JSONMarshal, arg).res, Host(JSONMarshal, arg).err,
                 <<"convert", "gate", "host">>, ctx.allowedFunctionSet)

\* func (ctx Tmpl) Exec, called on its own: ExecuteTemplate, no check
Tmpl_ExecCall(ctx, arg) ==
    Outcome(Host(TmplExec, arg).res, Host(TmplExec, arg).err, <<"host">>,
            ctx.allowedFunctionSet)

\* the method the evaluator runs for {{ ns.Name args }} on a handle
Invoke(ctx, fn, arg) ==
    CASE fn = CmpOr                    -> Cmp_Or(ctx, arg)
      [] fn = StringsIndexAny          -> Strings_IndexAny(ctx, arg)
      [] fn = RegexpFindAllStringIndex -> Regexp_FindAllStringIndex(ctx, arg)
      [] fn = JSONMarshal              -> JSON_Marshal(ctx, arg)
      [] fn = TmplExec                 -> Tmpl_ExecCall(ctx, arg)
      [] OTHER                         -> GatedCall(ctx, fn, arg)

\* m[ns] = func(...any) (any, error) { return Ns(rootCtx), nil }: the handle is
\* the rootContext under the namespace's type
NamespaceHandle(ns, ctx) ==
    [ns |-> ns, defined |-> TRUE, allowedFunctionSet |-> ctx.allowedFunctionSet]

\* text/template on an identifier the FuncMap does not hold:
\* "function ... not defined"
Undefined(ns) == [ns |-> ns, defined |-> FALSE, allowedFunctionSet |-> {}]

NoHandle == [ns |-> "", defined |-> FALSE, allowedFunctionSet |-> {}]

NoCall == [fn |-> NoFunc, arg |-> "valid", res |-> NoValue, err |-> NoError, steps |-> <<>>]

-----------------------------------------------------------------------------
(* Inputs *)

\* sequences over S of length at most n
SeqsUpTo(S, n) == UNION {[1..k -> S] : k \in 0..n}

\* AllowedFunctions values an embedder passes to FuncMap, each as its Functions()
DescriptorItems ==
    {Functions(StringsToLower), Functions(URLJoinPath), Functions(OSHostname),
     Functions(JSONValid), Functions(RegexpFindAllString),
     Functions(RegexpFindAllStringIndex), Strings, Safe,
     Functions(UnknownNamespace), Functions(UnknownFunction)}

PartItems ==
    {Functions(URLJoinPath), Functions(OSHostname), Strings, Safe,
     Functions(UnknownNamespace), Functions(UnknownFunction)}

NotBuilt == [a |-> {}, b |-> {}, ab |-> {}, ba |-> {}, aa |-> {}, nsab |-> {}, done |-> FALSE]

NoExec == [how |-> "none", value |-> NoValue, emitted |-> "", res |-> NoValue,
           err |-> NoError]

NotEnded == [how |-> "none", value |-> NoValue, before |-> ""]

NotRaised == [err |-> NoError, depth |-> 0]

\* no conv / slice function has been applied
NoResult == [fn |-> "", via |-> "", of |-> <<>>, val |-> <<>>, err |-> ""]

NotApplied == args = <<>> /\ result = NoResult

\* no collection is held and no concurrent evaluation runs
NotStored == heap = <<>> /\ held = <<>> /\ evals = <<>>

\* no evaluation has been started
NotExecuting ==
    /\ wr = "" /\ bufs = <<>> /\ execErr = NoError /\ nodes = 0
    /\ lastExec = NoExec /\ ended = NotEnded /\ raised = NotRaised

-----------------------------------------------------------------------------
(* Spec: FuncMap, then scripts that reference namespaces and call methods *)

Init ==
    /\ pc = "config"
    /\ allowedFunctions \in SeqsUpTo(DescriptorItems, MaxDescriptors)
    /\ rootCtx = [allowedFunctionSet |-> {}]
    /\ m = {}
    /\ handle = NoHandle
    /\ last = NoCall
    /\ d1 = <<>> /\ d2 = <<>> /\ built = NotBuilt
    /\ NotExecuting
    /\ NotStored
    /\ NotApplied

\* tmpl.Funcs(FuncMap(tmpl, allowedFunctions...))
Configure ==
    /\ pc = "config"
    /\ pc' = "ready"
    /\ m' = FuncMap(allowedFunctions).m
    /\ rootCtx' = FuncMap(allowedFunctions).rootCtx
    /\ UNCHANGED <<heapVars, evals, allowedFunctions, gateVars, buildVars, pureVars, execVars>>

\* a script names the identifier ns: the registered closure yields a handle
Reference(ns) ==
    /\ pc = "ready"
    /\ handle' = IF ns \in m THEN NamespaceHandle(ns, rootCtx) ELSE Undefined(ns)
    /\ last' = NoCall
    /\ UNCHANGED <<heapVars, evals,
                   pc, allowedFunctions, rootCtx, m, buildVars, pureVars, execVars>>

\* the script calls method name of the handle with arguments of class arg
Call(name, arg) ==
    /\ pc = "ready"
    /\ handle.defined
    /\ name \in NamespacesAndTheirFunctions[handle.ns]
    /\ arg \in ArgsOf(Func(handle.ns, name))
    /\ LET fn == Func(handle.ns, name)
           r == Invoke(handle, fn, arg)
       IN  /\ last' = [fn |-> fn, arg |-> arg, res |-> r.res, err |-> r.err,
                       steps |-> r.steps]
           /\ rootCtx' = [allowedFunctionSet |-> r.allowedFunctionSet]
    /\ handle' = NoHandle
    /\ UNCHANGED <<heapVars, evals, pc, allowedFunctions, m, buildVars, pureVars, execVars>>

MethodNames == UNION {NamespacesAndTheirFunctions[ns] : ns \in Namespaces}

Next ==
    \/ Configure
    \/ \E ns \in Namespaces \cup {"net"} : Reference(ns)
    \/ \E name \in MethodNames, arg \in ArgClasses : Call(name, arg)

Spec == Init /\ [][Next]_vars

-----------------------------------------------------------------------------
(* SpecBuild: createAllowedFunctionSet on two descriptor lists and their joins *)

InitBuild ==
    /\ pc = "config"
    /\ d1 \in SeqsUpTo(PartItems, MaxPart)
    /\ d2 \in SeqsUpTo(PartItems, MaxPart)
    /\ built = NotBuilt
    /\ allowedFunctions = <<>>
    /\ rootCtx = [allowedFunctionSet |-> {}]
    /\ m = {}
    /\ handle = NoHandle
    /\ last = NoCall
    /\ NotExecuting
    /\ NotStored
    /\ NotApplied

Build ==
    /\ pc = "config"
    /\ pc' = "built"
    /\ built' = [a    |-> createAllowedFunctionSet(d1).functionSet,
                 b    |-> createAllowedFunctionSet(d2).functionSet,
                 ab   |-> createAllowedFunctionSet(d1 \o d2).functionSet,
                 ba   |-> createAllowedFunctionSet(d2 \o d1).functionSet,
                 aa   |-> createAllowedFunctionSet(d1 \o d1).functionSet,
                 nsab |-> createAllowedFunctionSet(d1 \o d2).namespaceSet,
                 done |-> TRUE]
    /\ UNCHANGED <<heapVars, evals,
                   allowedFunctions, rootCtx, m, gateVars, d1, d2, execVars, pureVars>>

NextBuild == Build

SpecBuild == InitBuild /\ [][NextBuild]_vars

-----------------------------------------------------------------------------
(* execute.go, fn_tmpl.go: evaluation, the return signal, tmpl.Exec *)

\* fmt.Sprint(v), fmt.Fprint(wr, v): the text of a value
Sprint(v) == v.text

\* errors.As(err, &retErr) for a ReturnError retErr, through any wrapping
AsReturnError(e) == e.kind = "return"

\* m["return"] = func(value any) (any, error) { return nil, ReturnError{Value: value} }
return(value) == [res |-> NoValue, err |-> ReturnError(value)]

\* text/template: the error of a called function, or the panic it recovered
\* from one, ends the evaluation as an ExecError that wraps it
ExecError(e) == Wrap("template: error calling", e)

\* a function that panics (the test's "panic"), as text/template recovers it
PanicError == Err("panic", NoFunc, NoValue)

\* finishExecute with the printed return value left out
finishExecuteSilent(e, w) ==
    IF e # NoError
    THEN IF AsReturnError(e)
         THEN [wr |-> w, err |-> NoError]
         ELSE [wr |-> w, err |-> Wrap("failed to execute template", e)]
    ELSE [wr |-> w, err |-> NoError]

\* finishExecute with every error taken for a return
finishExecuteAnyError(e, w) ==
    IF e # NoError
    THEN [wr |-> w \o Sprint(e.value), err |-> NoError]
    ELSE [wr |-> w, err |-> NoError]

\* finishExecute(err, wr): the writer and the error Execute returns
finishExecute(e, w) ==
    IF e # NoError
    THEN IF AsReturnError(e)
         THEN [wr |-> w \o Sprint(e.value), err |-> NoError]
         ELSE [wr |-> w, err |-> Wrap("failed to execute template", e)]
    ELSE [wr |-> w, err |-> NoError]

\* Execute(t, wr, data) / ExecuteTemplate(t, wr, name, data), once the
\* evaluation has ended with e
Execute(e, w) == finishExecute(e, w)

\* Exec taking every error of the sub-template for a return
\* Exec that hands a return on to its caller like any other error
Tmpl_ExecPassingReturn(buf, e) ==
    IF e # NoError
    THEN [res |-> Value("string", ""),
          err |-> Wrap("failed to execute partial template", e)]
    ELSE [res |-> Value("string", buf), err |-> NoError]

Tmpl_ExecAbsorbingAll(buf, e) ==
    IF e # NoError
    THEN [res |-> Value("string", Sprint(e.value)), err |-> NoError]
    ELSE [res |-> Value("string", buf), err |-> NoError]

\* func (ctx Tmpl) Exec(name, data) (string, error), once
\* ctx.template.ExecuteTemplate(&buf, name, data) has ended with e
Tmpl_Exec(buf, e) ==
    IF e # NoError
    THEN IF AsReturnError(e)
         THEN [res |-> Value("string", Sprint(e.value)), err |-> NoError]
         ELSE [res |-> Value("string", ""),
               err |-> Wrap("failed to execute partial template", e)]
    ELSE [res |-> Value("string", buf), err |-> NoError]

\* text/template writes s to the writer of the evaluation in progress: the
\* buffer of the innermost tmpl.Exec, or wr
Emit(s, w, bs) ==
    IF bs = <<>> THEN [wr |-> w \o s, bufs |-> bs]
    ELSE [wr |-> w, bufs |-> [bs EXCEPT ![Len(bs)] = @ \o s]]

Signal(e) == IF AsReturnError(e) THEN "return" ELSE "fail"

\* the error e leaves the evaluation in progress: every enclosing tmpl.Exec
\* sees it in turn, innermost first, and then Execute does
RECURSIVE propagate(_, _, _, _)
propagate(e, w, bs, exec) ==
    IF bs = <<>>
    THEN [wr |-> Execute(e, w).wr, bufs |-> <<>>, err |-> Execute(e, w).err,
          pc |-> "done", exec |-> exec,
          ended |-> [how |-> Signal(e), value |-> e.value, before |-> w]]
    ELSE LET buf == bs[Len(bs)]
             outer == SubSeq(bs, 1, Len(bs) - 1)
             r == Tmpl_Exec(buf, e)
             x == IF exec.how = "none"
                  THEN [how |-> Signal(e), value |-> e.value, emitted |-> buf,
                        res |-> r.res, err |-> r.err]
                  ELSE exec
         IN  IF r.err = NoError
             THEN [wr |-> Emit(Sprint(r.res), w, outer).wr,
                   bufs |-> Emit(Sprint(r.res), w, outer).bufs,
                   err |-> NoError, pc |-> "running", exec |-> x, ended |-> NotEnded]
             ELSE propagate(ExecError(r.err), w, outer, x)

\* configurations the tests and examples pass to FuncMap
ExecConfigs ==
    {<<>>, <<All>>, <<Safe>>, <<Strings, Tmpl, Functions(URLJoinPath)>>,
     <<Functions(OSHostname)>>}

\* text of the templates
Texts == {"Hello ", "Welcome, ", "!"}

\* values handed to return
ReturnValues ==
    {Value("string", "World"), Value("string", "Anonymous"), Value("dict", "map[name:Joe]")}

\* method calls written in the templates
TemplateCalls ==
    {<<StringsToLower, "valid">>, <<OSGetenv, "valid">>, <<URLPathEscape, "valid">>,
     <<ConvToInt, "invalid">>}

-----------------------------------------------------------------------------
(* SpecExec: FuncMap, then Execute on a template walked node by node *)

InitExec ==
    /\ pc = "config"
    /\ allowedFunctions \in ExecConfigs
    /\ rootCtx = [allowedFunctionSet |-> {}]
    /\ m = {}
    /\ handle = NoHandle
    /\ last = NoCall
    /\ d1 = <<>> /\ d2 = <<>> /\ built = NotBuilt
    /\ NotExecuting
    /\ NotStored
    /\ NotApplied

\* xtemplate.Execute(tmpl, &buf, data) starts on a parsed template
ExecuteStart ==
    /\ pc = "ready"
    /\ pc' = "running"
    /\ UNCHANGED <<heapVars, evals,
                   allowedFunctions, rootCtx, m, gateVars, buildVars, pureVars, execVars>>

\* identifiers the templates call as functions
Identifiers == {"error", "return"} \cup Namespaces

\* messages handed to the error function
Messages == {"No user provided", "oh no"}

\* text/template's Parse on a call of an identifier the FuncMap does not hold
ParseError(ident) == Err("undefined", Func("", ident), NoValue)

\* QuickExecute on `{{ ident msg }}`: tmpl.Funcs(FuncMap(...)), then Parse
\* fails with `function "ident" not defined`, and Execute is never reached
ParseUndefined(ident, msg) ==
    /\ pc = "ready"
    /\ ident \notin m
    /\ pc' = "done"
    /\ execErr' = Wrap("failed to parse template", ParseError(ident))
    /\ ended' = [how |-> "parse", value |-> Value("string", msg), before |-> wr,
                 ident |-> ident]
    /\ UNCHANGED <<heapVars, evals,
                   allowedFunctions, rootCtx, m, gateVars, buildVars, pureVars, wr, bufs, nodes,
                   lastExec, raised>>

Walking == pc = "running" /\ nodes < MaxNodes

\* what an error e of the node being walked does to the evaluation
Raise(e) ==
    LET p == propagate(e, wr, bufs, NoExec)
    IN  /\ wr' = p.wr
        /\ bufs' = p.bufs
        /\ execErr' = p.err
        /\ pc' = p.pc
        /\ lastExec' = IF p.exec.how = "none" THEN lastExec ELSE p.exec
        /\ ended' = p.ended
        /\ raised' = [err |-> e, depth |-> Len(bufs)]

\* a text node
Text(s) ==
    /\ Walking
    /\ nodes' = nodes + 1
    /\ wr' = Emit(s, wr, bufs).wr
    /\ bufs' = Emit(s, wr, bufs).bufs
    /\ UNCHANGED <<heapVars, evals,
                   pc, allowedFunctions, rootCtx, m, gateVars, buildVars, pureVars, execErr,
                   lastExec, ended, raised>>

\* {{ ns.Name args }}: the namespace closure, the method, the result printed
Action(fn, arg) ==
    /\ Walking
    /\ fn.Namespace \in m
    /\ nodes' = nodes + 1
    /\ LET r == Invoke(NamespaceHandle(fn.Namespace, rootCtx), fn, arg)
       IN  /\ rootCtx' = [allowedFunctionSet |-> r.allowedFunctionSet]
           /\ IF r.err = NoError
              THEN /\ wr' = Emit(Sprint(r.res), wr, bufs).wr
                   /\ bufs' = Emit(Sprint(r.res), wr, bufs).bufs
                   /\ UNCHANGED <<pc, execErr, lastExec, ended, raised>>
              ELSE Raise(ExecError(r.err))
    /\ UNCHANGED <<heapVars, evals, allowedFunctions, m, gateVars, buildVars, pureVars>>

\* {{ return value }}
Return(value) ==
    /\ Walking
    /\ "return" \in m
    /\ nodes' = nodes + 1
    /\ Raise(ExecError(return(value).err))
    /\ UNCHANGED <<heapVars, evals, allowedFunctions, rootCtx, m, gateVars, buildVars, pureVars>>

\* {{ panic "oh no" }}: a function of the embedder that panics
Panic ==
    /\ Walking
    /\ nodes' = nodes + 1
    /\ Raise(ExecError(PanicError))
    /\ UNCHANGED <<heapVars, evals, allowedFunctions, rootCtx, m, gateVars, buildVars, pureVars>>

\* {{ tmpl.Exec name data }}: Exec starts ExecuteTemplate on a buffer of its own
ExecBegin ==
    /\ Walking
    /\ "tmpl" \in m
    /\ nodes' = nodes + 1
    /\ bufs' = Append(bufs, "")
    /\ UNCHANGED <<heapVars, evals,
                   pc, allowedFunctions, rootCtx, m, gateVars, buildVars, pureVars, wr, execErr,
                   lastExec, ended, raised>>

\* the template in progress has no node left
End ==
    /\ pc = "running"
    /\ IF bufs = <<>>
       THEN /\ wr' = Execute(NoError, wr).wr
            /\ execErr' = Execute(NoError, wr).err
            /\ pc' = "done"
            /\ ended' = [how |-> "end", value |-> NoValue, before |-> wr]
            /\ UNCHANGED <<bufs, lastExec, raised>>
       ELSE LET buf == bufs[Len(bufs)]
                outer == SubSeq(bufs, 1, Len(bufs) - 1)
                r == Tmpl_Exec(buf, NoError)
            IN  /\ wr' = Emit(Sprint(r.res), wr, outer).wr
                /\ bufs' = Emit(Sprint(r.res), wr, outer).bufs
                /\ lastExec' = [how |-> "end", value |-> NoValue, emitted |-> buf,
                                res |-> r.res, err |-> r.err]
                /\ UNCHANGED <<pc, execErr, ended, raised>>
    /\ UNCHANGED <<heapVars, evals,
                   allowedFunctions, rootCtx, m, gateVars, buildVars, pureVars, nodes>>

NextExec ==
    \/ Configure
    \/ ExecuteStart
    \/ \E ident \in Identifiers, msg \in Messages : ParseUndefined(ident, msg)
    \/ \E s \in Texts : Text(s)
    \/ \E c \in TemplateCalls : Action(c[1], c[2])
    \/ \E v \in ReturnValues : Return(v)
    \/ Panic
    \/ ExecBegin
    \/ End

SpecExec == InitExec /\ [][NextExec]_vars

-----------------------------------------------------------------------------
(* Properties of the allow-list and of the gate *)

Range(seq) == {seq[i] : i \in 1..Len(seq)}

Permitted(ns) == \E f \in rootCtx.allowedFunctionSet : f.Namespace = ns

Called == last.fn # NoFunc

\* C1: a method whose (namespace, name) pair is not in the allow-list returns a
\* FuncNotAllowedError and its host function is not run.
C1_DeniedCallIsRefused ==
    (Called /\ last.fn \notin rootCtx.allowedFunctionSet)
        => (last.err.kind = "notallowed" /\ "host" \notin Range(last.steps))

\* C2: a FuncNotAllowedError carries exactly the (namespace, name) pair of the
\* method that was called.
C2_ErrorNamesInvokedPair ==
    (Called /\ last.err.kind = "notallowed") => last.err.fn = last.fn

\* C3: every method performs its gate check before anything else, so that a
\* method that is not permitted returns FuncNotAllowedError whatever its
\* arguments are, and no other error or result.
C3_GateCheckComesFirst ==
    Called =>
        /\ Head(last.steps) = "gate"
        /\ last.fn \notin rootCtx.allowedFunctionSet
              => (last.err.kind = "notallowed" /\ last.res = NoValue)

\* C4: the set built from D1 and D2 together permits exactly the union of what
\* the sets built from D1 and from D2 permit, in either order and with
\* descriptors repeated.
C4_UnionOfDescriptors ==
    built.done =>
        /\ built.ab = built.a \cup built.b
        /\ built.ba = built.ab
        /\ built.aa = built.a

C4_Witness ==
    /\ built.done
    /\ built.a \ built.b # {}
    /\ built.b \ built.a # {}
    /\ built.a \cap built.b # {}

\* C5: FuncMap never fails; a descriptor that names an unknown namespace, or an
\* unknown function of a known namespace, adds no permission and does not
\* expose its namespace.
C5_UnknownDescriptorsDropped ==
    /\ pc = "config" => "return" \in FuncMap(allowedFunctions).m
    /\ pc = "ready" =>
        LET given == Range(allFunctionsOf(allowedFunctions))
        IN  /\ rootCtx.allowedFunctionSet = given \cap KnownFuncs
            /\ \A ns \in m \ {"return"} :
                  \E f \in given \cap KnownFuncs : f.Namespace = ns

C5_Witness ==
    /\ pc = "ready"
    /\ UnknownFunction \in Range(allFunctionsOf(allowedFunctions))
    /\ UnknownNamespace \in Range(allFunctionsOf(allowedFunctions))
    /\ rootCtx.allowedFunctionSet = {}
    /\ m = {"return"}

\* C6: a namespace identifier is in the FuncMap if and only if the allow-list
\* holds a function of that namespace; a script that names any other namespace
\* meets an undefined identifier, not a FuncNotAllowedError.
C6_NamespaceExposure ==
    pc = "ready" =>
        /\ \A ns \in Namespaces \cup {"net"} : ns \in m <=> Permitted(ns)
        /\ handle.ns # "" => (handle.defined <=> Permitted(handle.ns))
        /\ (handle.ns # "" /\ ~handle.defined) => last.err.kind # "notallowed"

C6_Witness ==
    /\ pc = "ready"
    /\ handle.ns = "os" /\ ~handle.defined
    /\ "strings" \in m /\ "url" \in m

\* C7: once FuncMap has built the allow-list no call changes it, and every
\* handle made afterwards carries the list as it was built.
C7_AllowListNeverChanges ==
    [][pc = "ready" =>
          /\ rootCtx' = rootCtx
          /\ handle'.defined => handle'.allowedFunctionSet = rootCtx.allowedFunctionSet]_vars

C7_Witness ==
    /\ pc = "ready"
    /\ Called
    /\ last.err.kind = "notallowed"
    /\ rootCtx.allowedFunctionSet # {}

\* the os functions the embedder named next to funcs.Safe
OSAdded ==
    {f \in Range(OS) : \E i \in DOMAIN allowedFunctions :
                          allowedFunctions[i] # Safe /\ f \in Range(allowedFunctions[i])}

\* C24: funcs.Safe holds no function of the os namespace: with funcs.Safe
\* alone the os namespace is not exposed and every os function is denied; an
\* os function is callable only when it is added by name, and adding it
\* permits that function and no other function of os.
C24_SafeExcludesOS ==
    pc = "ready" =>
        /\ \A f \in Range(OS) : f \in rootCtx.allowedFunctionSet <=> f \in OSAdded
        /\ "os" \in m <=> OSAdded # {}
        /\ handle.ns = "os" => (handle.defined <=> OSAdded # {})
        /\ (Called /\ last.fn \in Range(OS)) =>
              IF last.fn \in OSAdded
              THEN last.err.kind # "notallowed" /\ "host" \in Range(last.steps)
              ELSE last.err = FuncNotAllowedError(last.fn) /\ "host" \notin Range(last.steps)

\* with funcs.Safe and funcs.OSHostname configured, os.Getenv has been denied
C24_Witness ==
    /\ pc = "ready"
    /\ allowedFunctions = <<Safe, Functions(OSHostname)>>
    /\ Called
    /\ last.fn = OSGetenv
    /\ last.err = FuncNotAllowedError(OSGetenv)

-----------------------------------------------------------------------------
(* Properties of Execute and of tmpl.Exec *)

\* C8: when a return signal reaches Execute / ExecuteTemplate the evaluation
\* is over with a nil error, and the writer holds exactly what was written
\* before the return followed by the rendered returned value: nothing of the
\* template after the return is emitted.
C8_ReturnAtTopLevel ==
    ended.how = "return" =>
        /\ pc = "done"
        /\ execErr = NoError
        /\ bufs = <<>>
        /\ wr = ended.before \o Sprint(ended.value)

\* `Hello {{ return "World" }} and Universe` has been executed
C8_Witness ==
    /\ pc = "done"
    /\ ended = [how |-> "return", value |-> Value("string", "World"), before |-> "Hello "]
    /\ wr = "Hello World"

\* C29: `return` is registered in every FuncMap whatever the capability set
\* is, the empty one included; a call of it passes no gate check and always
\* raises a return signal that carries exactly the value it was given.
C29_ReturnAlwaysRegistered ==
    [][/\ pc' # "config" => "return" \in m'
       /\ \A v \in ReturnValues :
             Return(v) => /\ raised'.err = ExecError(ReturnError(v))
                          /\ raised'.err.value = v
                          /\ rootCtx' = rootCtx]_vars

\* `Hello {{ return "World" }}` has been executed with FuncMap(tmpl), no
\* capability given
C29_Witness ==
    /\ allowedFunctions = <<>>
    /\ rootCtx.allowedFunctionSet = {}
    /\ m = {"return"}
    /\ pc = "done"
    /\ raised.err = ExecError(ReturnError(Value("string", "World")))
    /\ wr = "Hello World"

\* C9: when an evaluation run through Execute / ExecuteTemplate fails partway
\* (an error of a function, a denied operation, a failed conversion, a panic)
\* the call returns a non-nil error, and the writer holds what was written
\* before the failure and nothing else.
C9_FailureKeepsPartialOutput ==
    ended.how = "fail" =>
        /\ pc = "done"
        /\ execErr # NoError
        /\ wr = ended.before

\* `Hello {{ panic "oh no" }} and Universe` and a denied os.Getenv after
\* `Hello ` have both been refused with the partial output kept
C9_Witness ==
    /\ pc = "done"
    /\ ended.how = "fail"
    /\ wr = "Hello "
    /\ execErr.kind \in {"panic", "notallowed"}

\* C10: a return inside a sub-evaluation started by tmpl.Exec is absorbed
\* there: Exec returns a nil error and a result equal to the returned value,
\* without the output the sub-template wrote before the return.
C10_ReturnAbsorbedByExec ==
    lastExec.how = "return" =>
        /\ lastExec.err = NoError
        /\ lastExec.res = lastExec.value

\* C11: the value handed to return inside a sub-evaluation reaches the caller
\* of tmpl.Exec with its original kind (a returned dictionary is still a
\* dictionary whose fields can be read), not converted to text.
C11_ReturnedValueKeepsKind ==
    (lastExec.how = "return" /\ lastExec.err = NoError) =>
        lastExec.res.kind = lastExec.value.kind

PartialLayers(e) ==
    Cardinality({i \in DOMAIN e.wrap : e.wrap[i] = "failed to execute partial template"})

\* C12: tmpl.Exec absorbs nothing but a return: an error of a function, a
\* FuncNotAllowedError or a failed conversion inside a sub-evaluation, at any
\* depth, makes every enclosing tmpl.Exec return an error and ends Execute
\* with an error from which the original one can be extracted (errors.As).
C12_ExecAbsorbsOnlyReturn ==
    (raised.err # NoError /\ ~AsReturnError(raised.err)) =>
        /\ pc = "done"
        /\ ended.how = "fail"
        /\ execErr # NoError
        /\ execErr.kind = raised.err.kind
        /\ execErr.fn = raised.err.fn
        /\ PartialLayers(execErr) = raised.depth
        /\ bufs = <<>>

\* a denied url.PathEscape two tmpl.Exec deep has ended Execute
C12_Witness ==
    /\ pc = "done"
    /\ raised.depth = 2
    /\ raised.err.kind = "notallowed"
    /\ execErr.kind = "notallowed"
    /\ execErr.fn = URLPathEscape
    /\ PartialLayers(execErr) = 2

\* C13: a template that calls the function `error` with a message stops, and
\* QuickExecute returns an error from which a CustomError carrying that
\* message can be extracted with errors.As.
C13_ErrorFunctionRaisesCustomError ==
    (pc = "done" /\ ended.how = "parse" /\ ended.ident = "error") =>
        /\ execErr.kind = "custom"
        /\ Sprint(execErr.value) = Sprint(ended.value)

-----------------------------------------------------------------------------
(* fn_conv.go: the numeric kinds *)

\* The model checker's integers are 32 bits wide: the 32-bit and the 64-bit
\* kinds are modelled by narrower words, in the same order of widths
\* (8 < 16 < Bits32 < Bits64), and a float is a number of tenths.
Bits32 == 18
Bits64 == 22

MinInt8 == -(2^7)
MaxInt8 == 2^7 - 1
MaxUint8 == 2^8 - 1
MinInt16 == -(2^15)
MaxInt16 == 2^15 - 1
MaxUint16 == 2^16 - 1
MinInt32 == -(2^(Bits32 - 1))
MaxInt32 == 2^(Bits32 - 1) - 1
MaxUint32 == 2^Bits32 - 1
MinInt64 == -(2^(Bits64 - 1))
MaxInt64 == 2^(Bits64 - 1) - 1
MaxUint64 == 2^Bits64 - 1
\* int and uint of a 64-bit platform
MinInt == MinInt64
MaxInt == MaxInt64
MaxUint == MaxUint64
\* math.MaxFloat32, in tenths: beyond every integer kind
MaxFloat32 == 10 * 2^(Bits64 + 1)
\* math.MaxFloat64, in tenths
MaxFloat64 == 10 * 2^(Bits64 + 3)

SignedKinds == {"int8", "int16", "int32", "int64", "int"}
UnsignedKinds == {"uint8", "uint16", "uint32", "uint64", "uint"}
FloatKinds == {"float32", "float64"}
UnsupportedKinds == {"map", "slice", "struct", "nil"}

\* values of the kinds reflect tells apart
IntV(kind, n) == [kind |-> kind, n |-> n]
FloatV(kind, tenths) == [kind |-> kind, n |-> tenths]
BoolV(b) == [kind |-> "bool", n |-> IF b THEN 1 ELSE 0]
StrV(s) == [kind |-> "string", n |-> s]
OtherV(kind) == [kind |-> kind, n |-> 0]

\* the range of every integer kind
MinOf(kind) ==
    CASE kind = "int8" -> MinInt8 [] kind = "int16" -> MinInt16
      [] kind = "int32" -> MinInt32 [] kind = "int64" -> MinInt64
      [] kind = "int" -> MinInt [] OTHER -> 0
MaxOf(kind) ==
    CASE kind = "int8" -> MaxInt8 [] kind = "int16" -> MaxInt16
      [] kind = "int32" -> MaxInt32 [] kind = "int64" -> MaxInt64
      [] kind = "int" -> MaxInt
      [] kind = "uint8" -> MaxUint8 [] kind = "uint16" -> MaxUint16
      [] kind = "uint32" -> MaxUint32 [] kind = "uint64" -> MaxUint64
      [] kind = "uint" -> MaxUint

\* the outcome of a conversion: the value returned and the error ("" is nil,
\* "overflow", "parse" or "unsupported")
Ok(val) == [val |-> val, err |-> ""]

\* the zero value returned with a nil error
FailSilently(zero, err) == [val |-> zero, err |-> ""]

Fail(zero, err) == [val |-> zero, err |-> err]

\* a float truncated toward zero, as a Go conversion to an integer does
Trunc(tenths) == IF tenths >= 0 THEN tenths \div 10 ELSE -((-tenths) \div 10)

\* int64(f): exact inside the range; outside it the result depends on the
\* platform (the smallest int64 on amd64, the nearest bound on arm64)
Int64OfFloat(tenths) ==
    LET i == Trunc(tenths)
    IN  IF MinInt64 <= i /\ i <= MaxInt64 THEN {i}
        ELSE {MinInt64, IF i < 0 THEN MinInt64 ELSE MaxInt64}

\* uint64(f): exact inside the range; outside it the result depends on the
\* platform (the two's complement of int64(f) or 2^63 on amd64, the nearest
\* bound on arm64)
Uint64OfFloat(tenths) ==
    LET i == Trunc(tenths)
    IN  IF 0 <= i /\ i <= MaxUint64 THEN {i}
        ELSE {IF MinInt64 <= i /\ i < 0 THEN i + 2^Bits64 ELSE 2^(Bits64 - 1),
              IF i < 0 THEN 0 ELSE MaxUint64}

\* uint64(i) of a signed integer: its two's complement
Uint64OfInt(i) == i % (2^Bits64)

-----------------------------------------------------------------------------
(* strconv and strings, as fn_conv.go uses them; a text is a sequence of
   one-character strings *)

UpperLetters ==
    <<"A", "B", "C", "D", "E", "F", "I", "J", "L", "N", "O", "R", "S", "T", "U", "X", "Y">>
LowerLetters ==
    <<"a", "b", "c", "d", "e", "f", "i", "j", "l", "n", "o", "r", "s", "t", "u", "x", "y">>

lower(c) ==
    IF \E i \in DOMAIN UpperLetters : UpperLetters[i] = c
    THEN LowerLetters[CHOOSE i \in DOMAIN UpperLetters : UpperLetters[i] = c]
    ELSE c

\* the text left in the case it came in
KeepCase(str) == str

\* strings.ToLower(str)
ToLower(str) == [i \in DOMAIN str |-> lower(str[i])]

\* strings.ReplaceAll(str, ",", "")
RemoveCommas(str) == SelectSeq(str, LAMBDA c : c # ",")

Digits == <<"0", "1", "2", "3", "4", "5", "6", "7", "8", "9", "a", "b", "c", "d", "e", "f">>

IsDigit(c, base) == \E d \in 1..base : Digits[d] = lower(c)

DigitVal(c) == (CHOOSE d \in DOMAIN Digits : Digits[d] = lower(c)) - 1

Tail2(s) == SubSeq(s, 3, Len(s))

\* the digit loop of strconv: the value, -1 on a character that is no digit
\* of the base, -2 beyond max
RECURSIVE parseDigits(_, _, _, _, _)
parseDigits(s, i, base, acc, max) ==
    IF i > Len(s) THEN acc
    ELSE IF ~IsDigit(s[i], base) THEN -1
    ELSE LET next == acc * base + DigitVal(s[i])
         IN  IF next > max THEN -2 ELSE parseDigits(s, i + 1, base, next, max)

\* strconv.ParseUint(s, 0, 64): no sign, the base taken from the prefix
ParseUint(s) ==
    IF s = <<>> THEN [n |-> 0, err |-> "syntax"]
    ELSE LET prefixed == Len(s) >= 3 /\ s[1] = "0" /\ lower(s[2]) \in {"b", "o", "x"}
             base == IF s[1] # "0" THEN 10
                     ELSE IF ~prefixed THEN 8
                     ELSE IF lower(s[2]) = "b" THEN 2
                     ELSE IF lower(s[2]) = "o" THEN 8 ELSE 16
             body == IF s[1] # "0" THEN s ELSE IF prefixed THEN Tail2(s) ELSE Tail(s)
             v == parseDigits(body, 1, base, 0, MaxUint64)
         IN  IF v = -1 THEN [n |-> 0, err |-> "syntax"]
             ELSE IF v = -2 THEN [n |-> MaxUint64, err |-> "range"]
             ELSE [n |-> v, err |-> ""]

\* strconv.ParseInt(s, 0, 64): an optional sign, then ParseUint, then the
\* range of int64
ParseInt(s) ==
    IF s = <<>> THEN [n |-> 0, err |-> "syntax"]
    ELSE LET neg == s[1] = "-"
             body == IF s[1] \in {"+", "-"} THEN Tail(s) ELSE s
             un == ParseUint(body)
         IN  IF un.err = "syntax" THEN [n |-> 0, err |-> "syntax"]
             ELSE IF un.err = "range"
             THEN [n |-> IF neg THEN MinInt64 ELSE MaxInt64, err |-> "range"]
             ELSE IF ~neg /\ un.n > MaxInt64 THEN [n |-> MaxInt64, err |-> "range"]
             ELSE IF neg /\ un.n > -MinInt64 THEN [n |-> MinInt64, err |-> "range"]
             ELSE [n |-> IF neg THEN -un.n ELSE un.n, err |-> ""]

IndexOfDot(s) ==
    IF \E i \in DOMAIN s : s[i] = "."
    THEN CHOOSE i \in DOMAIN s : s[i] = "." /\ \A j \in 1..(i - 1) : s[j] # "."
    ELSE Len(s) + 1

\* strconv.ParseFloat(s, 64) on the decimal texts the model draws (no
\* exponent, no hexadecimal float, no inf or nan): the value in tenths
ParseFloat(s) ==
    IF s = <<>> THEN [n |-> 0, err |-> "syntax"]
    ELSE LET neg == s[1] = "-"
             body == IF s[1] \in {"+", "-"} THEN Tail(s) ELSE s
             dot == IndexOfDot(body)
             whole == SubSeq(body, 1, dot - 1)
             frac == SubSeq(body, dot + 1, Len(body))
             w == parseDigits(whole, 1, 10, 0, MaxFloat64 \div 10)
             f == parseDigits(frac, 1, 10, 0, MaxFloat64 \div 10)
             tenths == 10 * w + (IF frac = <<>> THEN 0 ELSE DigitVal(frac[1]))
         IN  IF (whole = <<>> /\ frac = <<>>) \/ w = -1 \/ f = -1
             THEN [n |-> 0, err |-> "syntax"]
             ELSE IF w = -2 THEN [n |-> IF neg THEN -MaxFloat64 ELSE MaxFloat64, err |-> "range"]
             ELSE [n |-> IF neg THEN -tenths ELSE tenths, err |-> ""]

\* strconv's decimal text of an integer, as fmt.Sprint writes it
RECURSIVE digitsOf(_, _)
digitsOf(n, acc) ==
    IF n < 10 THEN <<Digits[n + 1]>> \o acc
    ELSE digitsOf(n \div 10, <<Digits[(n % 10) + 1]>> \o acc)

FormatInt(n) == IF n < 0 THEN <<"-">> \o digitsOf(-n, <<>>) ELSE digitsOf(n, <<>>)

-----------------------------------------------------------------------------
(* fn_conv.go: the conversions; each yields the set of outcomes the build
   can produce (one, unless a float is converted outside the integer range) *)

\* fmt.Sprint of a float
FormatFloat(tenths) ==
    LET a == IF tenths < 0 THEN -tenths ELSE tenths
        sign == IF tenths < 0 THEN <<"-">> ELSE <<>>
    IN  sign \o digitsOf(a \div 10, <<>>)
             \o (IF a % 10 = 0 THEN <<>> ELSE <<".", Digits[(a % 10) + 1]>>)

\* fmt.Sprint(in)
SprintV(in) ==
    CASE in.kind \in SignedKinds \cup UnsignedKinds -> FormatInt(in.n)
      [] in.kind \in FloatKinds -> FormatFloat(in.n)
      [] in.kind = "bool" -> IF in.n = 1 THEN <<"t", "r", "u", "e">>
                             ELSE <<"f", "a", "l", "s", "e">>
      [] in.kind = "map" -> <<"m", "a", "p", "[", "]">>
      [] in.kind = "slice" -> <<"[", "]">>
      [] in.kind = "struct" -> <<"{", "}">>
      [] in.kind = "nil" -> <<"<", "n", "i", "l", ">">>
      [] OTHER -> in.n

\* func strToFloat64(str string) (float64, error)
strToFloat64(str) ==
    LET s == RemoveCommas(str)
        iv == ParseInt(s)
        fv == ParseFloat(s)
    IN  IF iv.err # ""
        THEN IF fv.err # "" THEN {Fail(FloatV("float64", 0), "parse")}
             ELSE {Ok(FloatV("float64", fv.n))}
        ELSE {Ok(FloatV("float64", 10 * iv.n))}

\* func toFloat64(v any) (float64, error)
toFloat64(v) ==
    CASE v.kind = "string" -> strToFloat64(v.n)
      [] v.kind \in SignedKinds \cup UnsignedKinds -> {Ok(FloatV("float64", 10 * v.n))}
      [] v.kind \in FloatKinds -> {Ok(FloatV("float64", v.n))}
      [] v.kind = "bool" -> {Ok(FloatV("float64", 10 * v.n))}
      [] OTHER -> {Fail(FloatV("float64", 0), "unsupported")}

\* func toFloat32(v any) (float32, error)
toFloat32(v) ==
    {IF o.err # "" THEN Fail(FloatV("float32", 0), o.err)
     ELSE IF o.val.n > MaxFloat32 \/ o.val.n < -MaxFloat32
     THEN Fail(FloatV("float32", 0), "overflow")
     ELSE Ok(FloatV("float32", o.val.n)) : o \in toFloat64(v)}

\* func strToInt64(str string) (int64, error)
strToInt64(str) ==
    LET s == RemoveCommas(str)
        iv == ParseInt(s)
        fv == ParseFloat(s)
    IN  IF iv.err # ""
        THEN IF fv.err # "" THEN {Fail(IntV("int64", 0), "parse")}
             ELSE {Ok(IntV("int64", i)) : i \in Int64OfFloat(fv.n)}
        ELSE {Ok(IntV("int64", iv.n))}

\* func toInt64(v any) (int64, error)
toInt64(v) ==
    CASE v.kind = "string" -> strToInt64(v.n)
      [] v.kind \in SignedKinds -> {Ok(IntV("int64", v.n))}
      [] v.kind \in {"uint8", "uint16", "uint32"} -> {Ok(IntV("int64", v.n))}
      [] v.kind \in {"uint", "uint64"} ->
            IF v.n > MaxInt64 THEN {Fail(IntV("int64", 0), "overflow")}
            ELSE {Ok(IntV("int64", v.n))}
      [] v.kind \in FloatKinds -> {Ok(IntV("int64", i)) : i \in Int64OfFloat(v.n)}
      [] v.kind = "bool" -> {Ok(IntV("int64", v.n))}
      [] OTHER -> {Fail(IntV("int64", 0), "unsupported")}

\* func toInt[T int | int8 | int16 | int32](v any, minValue, maxValue int64) (T, error)
toInt(T, v, minValue, maxValue) ==
    {IF o.err # "" THEN Fail(IntV(T, 0), o.err)
     ELSE IF o.val.n < minValue \/ o.val.n > maxValue THEN Fail(IntV(T, 0), "overflow")
     ELSE Ok(IntV(T, o.val.n)) : o \in toInt64(v)}

\* func strToUint64(str string) (uint64, error)
strToUint64(str) ==
    LET s == RemoveCommas(str)
        iv == ParseUint(s)
        fv == ParseFloat(s)
    IN  IF iv.err # ""
        THEN IF fv.err # "" THEN {Fail(IntV("uint64", 0), "parse")}
             ELSE {Ok(IntV("uint64", i)) : i \in Uint64OfFloat(fv.n)}
        ELSE {Ok(IntV("uint64", iv.n))}

\* func toUint64(v any) (uint64, error)
toUint64(v) ==
    CASE v.kind = "string" -> strToUint64(v.n)
      [] v.kind \in UnsignedKinds -> {Ok(IntV("uint64", v.n))}
      [] v.kind \in {"int8", "int16", "int32"} -> {Ok(IntV("uint64", Uint64OfInt(v.n)))}
      [] v.kind \in {"int", "int64"} ->
            IF v.n < 0 THEN {Fail(IntV("uint64", 0), "overflow")}
            ELSE {Ok(IntV("uint64", v.n))}
      [] v.kind \in FloatKinds -> {Ok(IntV("uint64", i)) : i \in Uint64OfFloat(v.n)}
      [] v.kind = "bool" -> {Ok(IntV("uint64", v.n))}
      [] OTHER -> {Fail(IntV("uint64", 0), "unsupported")}

\* func toUint[T uint | uint8 | uint16 | uint32](v any, maxValue uint64) (T, error)
toUint(T, v, maxValue) ==
    {IF o.err # "" THEN Fail(IntV(T, 0), o.err)
     ELSE IF o.val.n > maxValue THEN Fail(IntV(T, 0), "overflow")
     ELSE Ok(IntV(T, o.val.n)) : o \in toUint64(v)}

TrueTokens == {<<"1">>, <<"t">>, <<"t", "r", "u", "e">>, <<"y", "e", "s">>}

\* toBool with every number but zero taken for true
toBoolNonZero(in) ==
    CASE in.kind = "bool" -> in.n = 1
      [] in.kind = "string" ->
            IF ToLower(in.n) \in TrueTokens THEN TRUE
            ELSE \A o \in strToFloat64(ToLower(in.n)) : o.val.n # 0
      [] in.kind \in SignedKinds \cup UnsignedKinds \cup FloatKinds -> in.n # 0
      [] OTHER -> FALSE

\* func toBool(in any) bool
toBool(in) ==
    CASE in.kind = "bool" -> in.n = 1
      [] in.kind = "string" ->
            IF ToLower(in.n) \in TrueTokens THEN TRUE
            ELSE \A o \in strToFloat64(ToLower(in.n)) : o.val.n = 10
      [] in.kind \in SignedKinds \cup UnsignedKinds -> in.n = 1
      [] in.kind \in FloatKinds -> in.n = 10
      [] OTHER -> FALSE

\* func toString(in any) string
toString(in) ==
    IF in.kind = "nil" THEN <<>>
    ELSE IF in.kind = "string" THEN in.n
    ELSE SprintV(in)

\* the methods of Conv, past their allow-list check
ScalarTargets ==
    {"ToBool", "ToString", "ToFloat64", "ToFloat32", "ToInt64", "ToInt8", "ToInt16",
     "ToInt32", "ToInt", "ToUint64", "ToUint8", "ToUint16", "ToUint32", "ToUint"}

Conv_To(target, v) ==
    CASE target = "ToBool" -> {Ok(BoolV(toBool(v)))}
      [] target = "ToString" -> {Ok(StrV(toString(v)))}
      [] target = "ToFloat64" -> toFloat64(v)
      [] target = "ToFloat32" -> toFloat32(v)
      [] target = "ToInt64" -> toInt64(v)
      [] target = "ToInt8" -> toInt("int8", v, MinInt8, MaxInt8)
      [] target = "ToInt16" -> toInt("int16", v, MinInt16, MaxInt16)
      [] target = "ToInt32" -> toInt("int32", v, MinInt32, MaxInt32)
      [] target = "ToInt" -> toInt("int", v, MinInt, MaxInt)
      [] target = "ToUint64" -> toUint64(v)
      [] target = "ToUint8" -> toUint("uint8", v, MaxUint8)
      [] target = "ToUint16" -> toUint("uint16", v, MaxUint16)
      [] target = "ToUint32" -> toUint("uint32", v, MaxUint32)
      [] target = "ToUint" -> toUint("uint", v, MaxUint)

\* the batch loop leaving out the elements that fail
RECURSIVE rangeConvSkipping(_, _, _, _)
rangeConvSkipping(scalar, in, i, out) ==
    IF i > Len(in) THEN {Ok(out)}
    ELSE UNION {IF o.err # "" THEN rangeConvSkipping(scalar, in, i + 1, out)
                ELSE rangeConvSkipping(scalar, in, i + 1, Append(out, o.val))
                : o \in Conv_To(scalar, in[i])}

\* the batch loops (toFloat64s, toFloat32s, toInt64s, toInts, toUint64s,
\* toUints): out[i], err = scalar(v); if err != nil { return nil, err }
RECURSIVE rangeConv(_, _, _, _)
rangeConv(scalar, in, i, out) ==
    IF i > Len(in) THEN {Ok(out)}
    ELSE UNION {IF o.err # "" THEN {Fail(<<>>, o.err)}
                ELSE rangeConv(scalar, in, i + 1, Append(out, o.val))
                : o \in Conv_To(scalar, in[i])}

\* func toBools(in []any) []bool
toBools(in) == [i \in DOMAIN in |-> BoolV(toBool(in[i]))]

\* func toStrings(in []any) []string
toStrings(in) == [i \in DOMAIN in |-> StrV(toString(in[i]))]

\* the scalar conversion behind every batch method of Conv
ScalarOf ==
    [ToBools |-> "ToBool", ToStrings |-> "ToString", ToFloat64s |-> "ToFloat64",
     ToFloat32s |-> "ToFloat32", ToInt64s |-> "ToInt64", ToInt8s |-> "ToInt8",
     ToInt16s |-> "ToInt16", ToInt32s |-> "ToInt32", ToInts |-> "ToInt",
     ToUint64s |-> "ToUint64", ToUint8s |-> "ToUint8", ToUint16s |-> "ToUint16",
     ToUint32s |-> "ToUint32", ToUints |-> "ToUint"]

BatchTargets == DOMAIN ScalarOf

\* the batch methods of Conv, past their allow-list check
Conv_Tos(target, in) ==
    CASE target = "ToBools" -> {Ok(toBools(in))}
      [] target = "ToStrings" -> {Ok(toStrings(in))}
      [] OTHER -> rangeConv(ScalarOf[target], in, 1, <<>>)

-----------------------------------------------------------------------------
(* SpecConv: one conversion of one input, a second conversion of its result,
   or one batch conversion of a list *)

upper(c) ==
    IF \E i \in DOMAIN LowerLetters : LowerLetters[i] = c
    THEN UpperLetters[CHOOSE i \in DOMAIN LowerLetters : LowerLetters[i] = c]
    ELSE c

\* a token in every letter case
AnyCase(token) ==
    {s \in [DOMAIN token -> {token[i] : i \in DOMAIN token}
                            \cup {upper(token[i]) : i \in DOMAIN token}] :
        \A i \in DOMAIN token : s[i] \in {token[i], upper(token[i])}}

TrueTexts ==
    AnyCase(<<"1">>) \cup AnyCase(<<"t">>) \cup AnyCase(<<"t", "r", "u", "e">>)
    \cup AnyCase(<<"y", "e", "s">>)

FalseTexts ==
    AnyCase(<<"0">>) \cup AnyCase(<<"f">>) \cup AnyCase(<<"f", "a", "l", "s", "e">>)
    \cup AnyCase(<<"n", "o">>)

\* numeric texts, each with the value (in tenths) it denotes once the commas
\* are removed
NumericTexts ==
    {[s |-> <<"1", ",", "2", "3", "4", ".", "5">>, tenths |-> 12345],
     [s |-> <<"1", ",", "0", "0", "0">>, tenths |-> 10000],
     [s |-> <<"0", "x", "1", "F">>, tenths |-> 310],
     [s |-> <<"0", "b", "1", "0", "1">>, tenths |-> 50],
     [s |-> <<"0", "o", "1", "7">>, tenths |-> 150],
     [s |-> <<"0", "1", "7">>, tenths |-> 150],
     [s |-> <<"-", "0", "x", "1", "0">>, tenths |-> -160],
     [s |-> <<"1", "2", ".", "9">>, tenths |-> 129],
     [s |-> <<"-", "1", "2", ".", "9">>, tenths |-> -129],
     [s |-> <<"2", "5", "5", ".", "9">>, tenths |-> 2559],
     [s |-> <<"3", "0", "0">>, tenths |-> 3000],
     [s |-> <<"-", "1">>, tenths |-> -10],
     [s |-> <<"+", "7">>, tenths |-> 70],
     [s |-> <<"4", "2">>, tenths |-> 420],
     [s |-> <<"1", ".", "0">>, tenths |-> 10],
     [s |-> <<"0", "x", "1">>, tenths |-> 10],
     [s |-> <<"+", "1">>, tenths |-> 10],
     [s |-> <<"0", ",", "1">>, tenths |-> 10],
     [s |-> <<"2">>, tenths |-> 20]}

\* texts that are no number
BadTexts == {<<>>, <<"a", "b", "c">>, <<"1", "2", "x">>, <<"0", "x">>, <<".">>, <<"-">>}

IntegerInputs ==
    UNION {{IntV(k, MinOf(k)), IntV(k, -1), IntV(k, 0), IntV(k, 1), IntV(k, MaxOf(k))}
           : k \in SignedKinds}
    \cup UNION {{IntV(k, 0), IntV(k, 1), IntV(k, MaxOf(k))} : k \in UnsignedKinds}
    \cup {IntV("int16", 300), IntV("int16", -300), IntV("uint16", 256)}

FloatInputs ==
    {FloatV("float64", t) :
        t \in {0, 10, 15, -5, -15, 2559, 2560, -1290, 10 * MaxInt64, 10 * (MaxInt64 + 1),
               10 * (MinInt64 - 1), 10 * MaxUint64, 10 * (MaxUint64 + 1),
               MaxFloat32, MaxFloat32 + 10, -MaxFloat32 - 10}}
    \cup {FloatV("float32", t) : t \in {10, -15, 10 * (MaxUint64 + 1)}}

ConvInputs ==
    IntegerInputs \cup FloatInputs \cup {BoolV(TRUE), BoolV(FALSE)}
    \cup {StrV(s) : s \in TrueTexts \cup FalseTexts \cup BadTexts}
    \cup {StrV(t.s) : t \in NumericTexts}
    \cup {OtherV(k) : k \in UnsupportedKinds}

MaxBatch == 3

BatchElems ==
    {IntV("int16", 300), IntV("int8", -1), StrV(<<"4", "2">>), StrV(<<"a", "b", "c">>),
     OtherV("map"), FloatV("float64", 15)}

InitConv ==
    /\ \/ pc = "conv" /\ args \in ConvInputs
       \/ pc = "convs" /\ args \in SeqsUpTo(BatchElems, MaxBatch)
    /\ result = NoResult
    /\ allowedFunctions = <<>>
    /\ rootCtx = [allowedFunctionSet |-> {}]
    /\ m = {}
    /\ handle = NoHandle
    /\ last = NoCall
    /\ d1 = <<>> /\ d2 = <<>> /\ built = NotBuilt
    /\ NotExecuting
    /\ NotStored

\* {{ conv.<target> args }}
Convert(target) ==
    /\ pc = "conv"
    /\ \E o \in Conv_To(target, args) :
          result' = [fn |-> target, via |-> "", of |-> args, val |-> o.val, err |-> o.err]
    /\ pc' = "converted"
    /\ UNCHANGED <<heapVars, evals,
                   allowedFunctions, rootCtx, m, gateVars, buildVars, execVars, args>>

\* {{ conv.<target> ( conv.<via> args ) }}
Chain(target) ==
    /\ pc = "converted"
    /\ result.err = ""
    /\ \E o \in Conv_To(target, result.val) :
          result' = [fn |-> target, via |-> result.fn, of |-> result.val, val |-> o.val,
                     err |-> o.err]
    /\ pc' = "chained"
    /\ UNCHANGED <<heapVars, evals,
                   allowedFunctions, rootCtx, m, gateVars, buildVars, execVars, args>>

\* {{ conv.<target> $list }}
ConvertBatch(target) ==
    /\ pc = "convs"
    /\ \E o \in Conv_Tos(target, args) :
          result' = [fn |-> target, via |-> "", of |-> args, val |-> o.val, err |-> o.err]
    /\ pc' = "batched"
    /\ UNCHANGED <<heapVars, evals,
                   allowedFunctions, rootCtx, m, gateVars, buildVars, execVars, args>>

NextConv ==
    \/ \E target \in ScalarTargets : Convert(target)
    \/ \E target \in ScalarTargets : Chain(target)
    \/ \E target \in BatchTargets : ConvertBatch(target)

SpecConv == InitConv /\ [][NextConv]_vars

-----------------------------------------------------------------------------
(* Properties of the conversions *)

KindOfTarget ==
    [ToInt8 |-> "int8", ToInt16 |-> "int16", ToInt32 |-> "int32", ToInt64 |-> "int64",
     ToInt |-> "int", ToUint8 |-> "uint8", ToUint16 |-> "uint16", ToUint32 |-> "uint32",
     ToUint64 |-> "uint64", ToUint |-> "uint"]

IntegerTargets == DOMAIN KindOfTarget

SignedTargets == {t \in IntegerTargets : KindOfTarget[t] \in SignedKinds}

Fits(i, target) == MinOf(KindOfTarget[target]) <= i /\ i <= MaxOf(KindOfTarget[target])

IsNumeric(v) == v.kind \in SignedKinds \cup UnsignedKinds \cup FloatKinds

\* the numeric value v lies outside what the target can represent
Outside(v, target) ==
    IF target = "ToFloat32"
    THEN v.kind \in FloatKinds /\ (v.n > MaxFloat32 \/ v.n < -MaxFloat32)
    ELSE IF v.kind \in FloatKinds THEN ~Fits(Trunc(v.n), target)
    ELSE ~Fits(v.n, target)

\* C14: for every integer target and ToFloat32 and every numeric input of a
\* signed, unsigned or float kind, a value outside the target's range (a
\* negative value for an unsigned target, a float beyond the 64-bit range)
\* fails with an overflow error; no wrapped or saturated value is returned.
C14_OutOfRangeOverflows ==
    (/\ pc = "converted"
     /\ result.fn \in IntegerTargets \cup {"ToFloat32"}
     /\ IsNumeric(args)
     /\ Outside(args, result.fn)) => result.err = "overflow"

\* C15: for every signed width and every integer v that fits it, the matching
\* ToInt function applied to the decimal text of v returns v; for the decimal
\* text of an integer outside the width (the 64-bit width too) it fails with
\* an overflow error and returns no wrapped value.
C15_DecimalTextRoundTrip ==
    (/\ pc = "chained"
     /\ result.via = "ToString"
     /\ result.fn \in SignedTargets
     /\ args.kind \in SignedKinds \cup UnsignedKinds) =>
        IF Fits(args.n, result.fn)
        THEN result.err = "" /\ result.val.n = args.n
        ELSE result.err = "overflow"

\* C16: ToString(ToBool(s)) is "true" for every token s of "1", "t", "true",
\* "yes" in any letter case, and "false" for every token of "0", "f",
\* "false", "no" in any letter case.
C16_BoolTokensRoundTrip ==
    (/\ pc = "chained"
     /\ result.via = "ToBool"
     /\ result.fn = "ToString"
     /\ args.kind = "string") =>
        /\ args.n \in TrueTexts => (result.err = "" /\ result.val.n = <<"t", "r", "u", "e">>)
        /\ args.n \in FalseTexts =>
              (result.err = "" /\ result.val.n = <<"f", "a", "l", "s", "e">>)

\* ToString(ToBool("YeS")) has been evaluated
C16_Witness ==
    /\ pc = "chained"
    /\ args = StrV(<<"Y", "e", "S">>)
    /\ result.via = "ToBool"
    /\ result.fn = "ToString"
    /\ result.val = StrV(<<"t", "r", "u", "e">>)

\* the value, in tenths, the text of args denotes; "none" if it is no number
Denoted(v) ==
    IF \E t \in NumericTexts : t.s = v.n
    THEN (CHOOSE t \in NumericTexts : t.s = v.n).tenths
    ELSE "none"

IsNumericText(v) == v.kind = "string" /\ \E t \in NumericTexts : t.s = v.n

\* C17: a text given to an integer or float conversion has its commas
\* removed and is read as an integer literal with an optional base prefix,
\* else as a float literal; an integer target truncates the value toward zero
\* and checks it against its range; a text that is neither fails. In
\* particular ToFloat64("1,234.5") is 1234.5.
C17_TextIsParsedThenRangeChecked ==
    (pc = "converted" /\ args.kind = "string") =>
        /\ (result.fn = "ToFloat64" /\ IsNumericText(args)) =>
              (result.err = "" /\ result.val.n = Denoted(args))
        /\ (result.fn \in IntegerTargets /\ IsNumericText(args)) =>
              IF Fits(Trunc(Denoted(args)), result.fn)
              THEN result.err = "" /\ result.val.n = Trunc(Denoted(args))
              ELSE result.err = "overflow"
        /\ (result.fn \in IntegerTargets \cup {"ToFloat64", "ToFloat32"}
            /\ args.n \in BadTexts) => result.err = "parse"

\* what the claim makes of an input of ToBool
Truthy(v) ==
    CASE v.kind = "bool" -> v.n = 1
      [] v.kind = "string" -> v.n \in TrueTexts \/ (IsNumericText(v) /\ Denoted(v) = 10)
      [] v.kind \in SignedKinds \cup UnsignedKinds -> v.n = 1
      [] v.kind \in FloatKinds -> v.n = 10

\* C26: ToBool returns true exactly when the input is the boolean true, a
\* text whose lower-cased form is one of 1, t, true, yes or that denotes, its
\* commas removed, the number 1, or a number equal to 1; for every other
\* number (zero, negative, of another magnitude) and every other text it
\* returns false.
C26_ToBoolOnlyOne ==
    (/\ pc = "converted"
     /\ result.fn = "ToBool"
     /\ args.kind \in {"bool", "string"} \cup SignedKinds \cup UnsignedKinds \cup FloatKinds) =>
        (result.err = "" /\ result.val = BoolV(Truthy(args)))

\* ToBool of the text "0,1" has returned true
C26_Witness ==
    /\ pc = "converted"
    /\ result.fn = "ToBool"
    /\ args = StrV(<<"0", ",", "1">>)
    /\ result.val = BoolV(TRUE)

Failing(scalar, in) == {i \in DOMAIN in : \E o \in Conv_To(scalar, in[i]) : o.err # ""}

FirstFailing(scalar, in) ==
    CHOOSE i \in Failing(scalar, in) : \A j \in Failing(scalar, in) : i <= j

\* C19: every batch coercion returns, on success, a list as long as its
\* input whose i-th element is the scalar conversion of the i-th input; if an
\* element fails it returns the error of the first failing element and no
\* list at all.
C19_BatchIsElementWise ==
    pc = "batched" =>
        LET scalar == ScalarOf[result.fn]
        IN  IF Failing(scalar, args) = {}
            THEN /\ result.err = ""
                 /\ Len(result.val) = Len(args)
                 /\ \A i \in DOMAIN args :
                       \E o \in Conv_To(scalar, args[i]) : o.err = "" /\ result.val[i] = o.val
            ELSE /\ result.val = <<>>
                 /\ \E o \in Conv_To(scalar, args[FirstFailing(scalar, args)]) :
                       result.err = o.err /\ o.err # ""

\* conv.ToInt8s of [42, 300, abc] has failed with the overflow of 300
C19_Witness ==
    /\ pc = "batched"
    /\ args = <<StrV(<<"4", "2">>), IntV("int16", 300), StrV(<<"a", "b", "c">>)>>
    /\ result.fn = "ToInt8s"
    /\ result.err = "overflow"
    /\ result.val = <<>>

-----------------------------------------------------------------------------
(* the slice namespace: Sort and Compact, past their allow-list check.  A
   collection is [elem, items]: the element kind of the Go slice ("any" for
   []any) and its elements; elem = "none" is a value that is no slice *)

SliceV(elem, items) == [elem |-> elem, items |-> items]

\* the element kinds the type switches of Sort and Compact name, []any aside
SortableKinds ==
    {"bool", "float32", "float64", "string", "int", "int8", "int16", "int32", "int64",
     "uint8", "uint16", "uint32", "uint64"}

\* the bytes of the texts the model draws, in their order
ByteOrder == SubSeq(Digits, 1, 10) \o UpperLetters \o LowerLetters

ByteOf(c) == CHOOSE i \in DOMAIN ByteOrder : ByteOrder[i] = c

\* a < b for two strings
RECURSIVE LessText(_, _)
LessText(a, b) ==
    IF b = <<>> THEN FALSE
    ELSE IF a = <<>> THEN TRUE
    ELSE IF Head(a) # Head(b) THEN ByteOf(Head(a)) < ByteOf(Head(b))
    ELSE LessText(Tail(a), Tail(b))

\* a < b for two elements of kind elem (false < true, as sortBool orders them)
LessItem(elem, a, b) == IF elem = "string" THEN LessText(a, b) ELSE a < b

\* slices.Sort(sl), sortBool(sl)
slicesSort(elem, items) == SortSeq(items, LAMBDA a, b : LessItem(elem, a, b))

\* slices.Compact(sl)
RECURSIVE slicesCompact(_)
slicesCompact(items) ==
    IF Len(items) <= 1 THEN items
    ELSE LET rest == slicesCompact(Tail(items))
         IN  IF Head(items) = Head(rest) THEN rest ELSE <<Head(items)>> \o rest

NilSlice == SliceV("none", <<>>)

\* Sort with a []any whose elements are all of one kind sorted by the
\* order of that kind
Slice_SortUniformAny(s) ==
    CASE s.elem = "any" /\ \E k \in SortableKinds \ {"string"} :
                              \A i \in DOMAIN s.items : s.items[i].kind = k ->
            Ok(SliceV("any", SortSeq(s.items, LAMBDA a, b : a.n < b.n)))
      [] s.elem = "any" -> Fail(NilSlice, "ErrCannotSortAnySlice")
      [] s.elem \in SortableKinds -> Ok(SliceV(s.elem, slicesSort(s.elem, s.items)))
      [] OTHER -> Fail(BoolV(FALSE), "ErrArgNotSlice")

\* func (ctx Slice) Sort(s any) (any, error)
Slice_Sort(s) ==
    CASE s.elem = "any" -> Fail(NilSlice, "ErrCannotSortAnySlice")
      [] s.elem \in SortableKinds -> Ok(SliceV(s.elem, slicesSort(s.elem, s.items)))
      [] OTHER -> Fail(BoolV(FALSE), "ErrArgNotSlice")

\* func (ctx Slice) Compact(s any) (any, error)
Slice_Compact(s) ==
    CASE s.elem = "any" -> Fail(NilSlice, "ErrCannotCompactAnySlice")
      [] s.elem \in SortableKinds -> Ok(SliceV(s.elem, slicesCompact(s.items)))
      [] OTHER -> Fail(NilSlice, "ErrArgNotSlice")

-----------------------------------------------------------------------------
(* SpecSlice: one operation of the slice namespace on one collection *)

MaxSliceLen == 3

\* elements of the heterogeneous collections
AnyItems == {IntV("int", 1), IntV("int", 2), StrV(<<"a">>), BoolV(TRUE)}

SliceInputs ==
    {SliceV("any", items) : items \in SeqsUpTo(AnyItems, MaxSliceLen)}
    \cup {SliceV(k, items) : k \in {"int", "uint8", "float64"},
                             items \in SeqsUpTo({1, 2, 3}, MaxSliceLen)}
    \cup {SliceV("bool", items) : items \in SeqsUpTo({0, 1}, MaxSliceLen)}
    \cup {SliceV("string", items) : items \in SeqsUpTo({<<"b">>, <<"B", "o">>, <<"a">>},
                                                      MaxSliceLen)}
    \cup {SliceV("uint", <<2, 1>>), SliceV("none", <<>>)}

InitSlice ==
    /\ pc = "slice"
    /\ args \in SliceInputs
    /\ result = NoResult
    /\ allowedFunctions = <<>>
    /\ rootCtx = [allowedFunctionSet |-> {}]
    /\ m = {}
    /\ handle = NoHandle
    /\ last = NoCall
    /\ d1 = <<>> /\ d2 = <<>> /\ built = NotBuilt
    /\ NotExecuting
    /\ NotStored

\* {{ slice.Sort args }}
SliceSort ==
    /\ pc = "slice"
    /\ LET o == Slice_Sort(args)
       IN  result' = [fn |-> "Sort", via |-> "", of |-> args, val |-> o.val, err |-> o.err]
    /\ pc' = "sliced"
    /\ UNCHANGED <<heapVars, evals,
                   allowedFunctions, rootCtx, m, gateVars, buildVars, execVars, args>>

\* {{ slice.Compact args }}
SliceCompact ==
    /\ pc = "slice"
    /\ LET o == Slice_Compact(args)
       IN  result' = [fn |-> "Compact", via |-> "", of |-> args, val |-> o.val, err |-> o.err]
    /\ pc' = "sliced"
    /\ UNCHANGED <<heapVars, evals,
                   allowedFunctions, rootCtx, m, gateVars, buildVars, execVars, args>>

NextSlice == SliceSort \/ SliceCompact

SpecSlice == InitSlice /\ [][NextSlice]_vars

\* C20: Sort and Compact applied to a heterogeneous ([]any) collection always
\* fail with their policy error (ErrCannotSortAnySlice,
\* ErrCannotCompactAnySlice), whatever the elements are, an empty collection
\* and one whose elements all have the same kind included; they return no
\* collection.
C20_AnySliceIsRefused ==
    (pc = "sliced" /\ args.elem = "any") =>
        /\ result.val = NilSlice
        /\ result.fn = "Sort" => result.err = "ErrCannotSortAnySlice"
        /\ result.fn = "Compact" => result.err = "ErrCannotCompactAnySlice"

\* slice.Sort of a []any holding the ints 2 and 1 has been refused
C20_Witness ==
    /\ pc = "sliced"
    /\ args = SliceV("any", <<IntV("int", 2), IntV("int", 1)>>)
    /\ result.fn = "Sort"
    /\ result.err = "ErrCannotSortAnySlice"

\* how often x occurs in items
Count(items, x) == Cardinality({i \in DOMAIN items : items[i] = x})

IsPermutation(a, b) ==
    /\ Len(a) = Len(b)
    /\ \A i \in DOMAIN a : Count(a, a[i]) = Count(b, a[i])

IsAscending(elem, items) ==
    \A i, j \in DOMAIN items : i < j => ~LessItem(elem, items[j], items[i])

\* the element kinds of the homogeneous collections: bool, string, every
\* integer and every float type of Go
HomogeneousKinds == {"bool", "string"} \cup SignedKinds \cup UnsignedKinds \cup FloatKinds

\* Sort has returned the ascending permutation of a collection of one of kinds
SortOrders(kinds) ==
    (pc = "sliced" /\ result.fn = "Sort" /\ args.elem \in kinds) =>
        /\ result.err = ""
        /\ result.val.elem = args.elem
        /\ IsPermutation(args.items, result.val.items)
        /\ IsAscending(args.elem, result.val.items)

\* C21: Sort applied to a homogeneous collection (bool, string, any integer
\* or float width) returns a collection of the same element kind that is a
\* permutation of the input in ascending order, false before true.
C21_SortOrdersHomogeneous == SortOrders(HomogeneousKinds)

-----------------------------------------------------------------------------
(* the slice namespace on Go slices.  A slice is a header [elem, arr, len, cap]
   onto the backing array heap[arr], which has cap cells; arr = 0 is no array.
   Every cell holds a value [kind, n], of kind elem unless elem = "any".  The
   heap keeps the arrays a slice the template holds can refer to: an array
   that a call allocates and its result does not refer to is collected. *)

Hdr(elem, arr, len, cap) == [elem |-> elem, arr |-> arr, len |-> len, cap |-> cap]

NilHdr == Hdr("none", 0, 0, 0)

\* sl[0:len(sl)]
Items(hp, h) == IF h.arr = 0 THEN <<>> ELSE SubSeq(hp[h.arr], 1, h.len)

\* the zero value of an element type
Zero(elem) ==
    CASE elem = "string" -> StrV(<<>>)
      [] elem = "any" -> OtherV("nil")
      [] OTHER -> [kind |-> elem, n |-> 0]

\* unsafe.Sizeof of an element, in bytes (64-bit platform)
SizeOf(elem) ==
    CASE elem \in {"bool", "int8", "uint8"} -> 1
      [] elem \in {"int16", "uint16"} -> 2
      [] elem \in {"int32", "uint32", "float32"} -> 4
      [] elem \in {"string", "any"} -> 16
      [] OTHER -> 8

\* the small size classes of the Go allocator, in bytes
SizeClasses ==
    {8, 16, 24, 32, 48, 64, 80, 96, 112, 128, 144, 160, 176, 192, 208, 224, 240, 256}

\* runtime.roundupsize
roundupsize(size) ==
    IF size = 0 THEN 0
    ELSE IF \E c \in SizeClasses : c >= size
    THEN CHOOSE c \in SizeClasses : c >= size /\ \A d \in SizeClasses : d >= size => c <= d
    ELSE size

\* runtime.growslice: the capacity of the array append allocates when newLen
\* elements do not fit into oldCap (slices of fewer than 256 elements)
growslice(oldCap, newLen, elem) ==
    LET newcap == IF newLen > oldCap + oldCap THEN newLen ELSE oldCap + oldCap
    IN  roundupsize(newcap * SizeOf(elem)) \div SizeOf(elem)

\* a new array of cap cells whose first cells are items, and the slice of
\* these items
make(hp, elem, items, cap) ==
    [heap |-> Append(hp, items \o [i \in 1..(cap - Len(items)) |-> Zero(elem)]),
     hdr |-> Hdr(elem, Len(hp) + 1, Len(items), cap)]

\* sl[i] = items[i] for every i, in place
store(hp, h, items) ==
    IF h.arr = 0 THEN hp
    ELSE [hp EXCEPT ![h.arr] = [i \in DOMAIN @ |-> IF i <= Len(items) THEN items[i] ELSE @[i]]]

\* append(sl, vs...): in place behind len(sl) when the capacity suffices, into
\* a new array otherwise
append(hp, h, vs) ==
    LET n == h.len + Len(vs)
    IN  IF n <= h.cap
        THEN [heap |-> store(hp, h, Items(hp, h) \o vs), hdr |-> [h EXCEPT !.len = n]]
        ELSE make(hp, h.elem, Items(hp, h) \o vs, growslice(h.cap, n, h.elem))

\* the slice handed back in place of a copy
slicesCloneShared(hp, h) == [heap |-> hp, hdr |-> h]

\* slices.Clone(sl): append(sl[:0:0], sl...)
slicesClone(hp, h) == append(hp, Hdr(h.elem, h.arr, 0, 0), Items(hp, h))

\* func toAnySlice[T any](in []T) []any
toAnySlice(hp, h) == make(hp, "any", Items(hp, h), h.len)

\* slices.Reverse(sl)
slicesReverse(items) == [i \in DOMAIN items |-> items[Len(items) + 1 - i]]

\* func uniqSlice[T comparable](sl []T) []T
RECURSIVE uniqSlice(_, _, _)
uniqSlice(sl, i, out) ==
    IF i > Len(sl) THEN out
    ELSE IF \E j \in DOMAIN out : out[j] = sl[i] THEN uniqSlice(sl, i + 1, out)
    ELSE uniqSlice(sl, i + 1, Append(out, sl[i]))

\* the outcome of a method of Slice: the heap it leaves, the value and the error
Done(hp, val) == [heap |-> hp, val |-> val, err |-> ""]
Failed(hp, zero, err) == [heap |-> hp, val |-> zero, err |-> err]

\* the element kinds every type switch of the slice namespace names
SliceKinds == SortableKinds \cup {"any"}

IsSlice(val) == "arr" \in DOMAIN val

\* the garbage collector: of the arrays a call allocated on top of old, only
\* the one its result refers to is kept
collect(old, o) ==
    LET kept == SubSeq(o.heap, 1, Len(old))
    IN  IF IsSlice(o.val) /\ o.val.arr > Len(old)
        THEN [o EXCEPT !.heap = Append(kept, o.heap[o.val.arr]), !.val.arr = Len(old) + 1]
        ELSE [o EXCEPT !.heap = kept]

\* the values of a slice as slices.Sort and slices.Compact compare them
Raw(items) == [i \in DOMAIN items |-> items[i].n]
Boxed(elem, raw) == [i \in DOMAIN raw |-> [kind |-> elem, n |-> raw[i]]]

\* func (ctx Slice) Contains(s any, v any) (bool, error)
Slice_Contains(hp, h, v) ==
    CASE h.elem = "any" ->
            Done(hp, BoolV(\E i \in 1..h.len : v = Items(hp, h)[i]))
      [] h.elem \in SortableKinds ->
            LET t == toAnySlice(hp, h)
            IN  Done(t.heap, BoolV(\E i \in 1..t.hdr.len : v = Items(t.heap, t.hdr)[i]))
      [] OTHER -> Failed(hp, BoolV(FALSE), "ErrFirstArgumentMustBeSlice")

\* func (ctx Slice) Reverse(s any) (any, error), case []any
Slice_ReverseAny(hp, h) ==
    LET c == slicesClone(hp, h)
    IN  Done(store(c.heap, c.hdr, slicesReverse(Items(c.heap, c.hdr))), c.hdr)

\* func (ctx Slice) Reverse(s any) (any, error)
Slice_Reverse(hp, h) ==
    CASE h.elem = "any" -> Slice_ReverseAny(hp, h)
      [] h.elem \in SortableKinds ->
            LET t == toAnySlice(hp, h) IN Slice_ReverseAny(t.heap, t.hdr)
      [] OTHER -> Failed(hp, BoolV(FALSE), "ErrArgNotSlice")

\* func (ctx Slice) Sort(s any) (any, error), on the heap
Slice_SortOf(hp, h) ==
    LET o == Slice_Sort(SliceV(h.elem, Raw(Items(hp, h))))
        c == slicesClone(hp, h)
    IN  IF o.err # "" THEN Failed(hp, IF o.val = NilSlice THEN NilHdr ELSE o.val, o.err)
        ELSE Done(store(c.heap, c.hdr, Boxed(h.elem, o.val.items)), c.hdr)

\* func (ctx Slice) Compact(s any) (any, error), on the heap: slices.Compact
\* moves the kept elements to the front, clears the rest and returns sl[:n]
Slice_CompactOf(hp, h) ==
    LET o == Slice_Compact(SliceV(h.elem, Raw(Items(hp, h))))
        c == slicesClone(hp, h)
        kept == Boxed(h.elem, o.val.items)
        cleared == [i \in 1..(h.len - Len(kept)) |-> Zero(h.elem)]
    IN  IF o.err # "" THEN Failed(hp, NilHdr, o.err)
        ELSE Done(store(c.heap, c.hdr, kept \o cleared), [c.hdr EXCEPT !.len = Len(kept)])

\* func (ctx Slice) Len(s any) (int, error)
Slice_Len(hp, h) ==
    IF h.elem \in SliceKinds THEN Done(hp, IntV("int", h.len))
    ELSE Failed(hp, IntV("int", 0), "ErrArgNotSlice")

\* func (ctx Slice) Unique(s any) (any, error)
Slice_Unique(hp, h) ==
    IF h.elem \in SliceKinds
    THEN LET r == make(hp, h.elem, uniqSlice(Items(hp, h), 1, <<>>), h.len)
         IN  Done(r.heap, r.hdr)
    ELSE Failed(hp, NilHdr, "ErrArgNotSlice")

\* the batch conversion behind every case of the type switch of Append and
\* of Prepend
BatchOf ==
    [bool |-> "ToBools", string |-> "ToStrings", float32 |-> "ToFloat32s",
     float64 |-> "ToFloat64s", int |-> "ToInts", int8 |-> "ToInt8s", int16 |-> "ToInt16s",
     int32 |-> "ToInt32s", int64 |-> "ToInt64s", uint8 |-> "ToUint8s",
     uint16 |-> "ToUint16s", uint32 |-> "ToUint32s", uint64 |-> "ToUint64s"]

\* vals as they are stored: as they are in a []any, converted otherwise
converted(elem, vals) == IF elem = "any" THEN {Ok(vals)} ELSE Conv_Tos(BatchOf[elem], vals)

\* func (ctx Slice) Append(s any, vals ...any) (any, error)
Slice_Append(hp, h, vals) ==
    IF h.elem \in SliceKinds
    THEN {IF v.err # "" THEN Failed(hp, NilHdr, v.err)
          ELSE LET r == append(hp, h, v.val) IN Done(r.heap, r.hdr)
          : v \in converted(h.elem, vals)}
    ELSE {Failed(hp, NilHdr, "ErrFirstArgumentMustBeSlice")}

\* func (ctx Slice) Prepend(s any, vals ...any) (any, error): the converted
\* values (for a []any the variadic slice of the call) are the slice that
\* append extends
Slice_Prepend(hp, h, vals) ==
    IF h.elem \in SliceKinds
    THEN {IF v.err # "" THEN Failed(hp, NilHdr, v.err)
          ELSE LET front == make(hp, h.elem, v.val, Len(v.val))
                   r == append(front.heap, front.hdr, Items(hp, h))
               IN  Done(r.heap, r.hdr)
          : v \in converted(h.elem, vals)}
    ELSE {Failed(hp, NilHdr, "ErrFirstArgumentMustBeSlice")}

-----------------------------------------------------------------------------
(* SpecHeap: a template holds one collection and applies the methods of the
   slice namespace to it and to the collections they return *)

\* most collections a template holds
MaxHeld == 3

Joe == StrV(<<"J", "o", "e">>)
Alice == StrV(<<"A", "l", "i", "c", "e">>)
Bob == StrV(<<"B", "o", "b">>)

\* the collection a template starts with: its element kind, its elements and
\* the capacity left behind them (none when slice.New... made it, some when
\* Unique or an append that grew the array did)
FirstCollections ==
    {[elem |-> "string", items |-> <<Joe>>, spare |-> 0],
     [elem |-> "string", items |-> <<Joe, Bob>>, spare |-> 0],
     [elem |-> "string", items |-> <<Joe, Bob>>, spare |-> 1],
     [elem |-> "int", items |-> <<IntV("int", 2), IntV("int", 1), IntV("int", 1)>>, spare |-> 0],
     [elem |-> "uint8", items |-> <<IntV("uint8", 3), IntV("uint8", 1)>>, spare |-> 0],
     [elem |-> "bool", items |-> <<BoolV(TRUE), BoolV(FALSE)>>, spare |-> 0],
     [elem |-> "float64", items |-> <<FloatV("float64", 25), FloatV("float64", 15)>>,
      spare |-> 0],
     [elem |-> "any", items |-> <<IntV("int", 1), Joe, IntV("int", 1)>>, spare |-> 0],
     [elem |-> "uint", items |-> <<IntV("uint", 2), IntV("uint", 1)>>, spare |-> 0],
     [elem |-> "string", items |-> <<>>, spare |-> 0]}

\* the values a template hands to Append, Prepend and Contains
SuppliedValues ==
    {<<>>, <<Alice>>, <<Alice, Bob>>, <<IntV("int", 1)>>,
     <<IntV("int16", 300), FloatV("float64", 15)>>}

InitHeap ==
    /\ pc = "heap"
    /\ \/ \E c \in FirstCollections :
             LET r == make(<<>>, c.elem, c.items, Len(c.items) + c.spare)
             IN  heap = r.heap /\ held = <<[hdr |-> r.hdr, was |-> c.items, by |-> ""]>>
       \/ heap = <<>> /\ held = <<[hdr |-> NilHdr, was |-> <<>>, by |-> ""]>>
    /\ evals = <<>>
    /\ NotApplied
    /\ allowedFunctions = <<>>
    /\ rootCtx = [allowedFunctionSet |-> {}]
    /\ m = {}
    /\ handle = NoHandle
    /\ last = NoCall
    /\ d1 = <<>> /\ d2 = <<>> /\ built = NotBuilt
    /\ NotExecuting

\* the call fn of held[i] with vals has ended in outcome: the template keeps
\* the collection it returned
Returned(fn, i, vals, outcome) ==
    LET o == collect(heap, outcome)
    IN  /\ heap' = o.heap
        /\ held' = IF o.err = "" /\ IsSlice(o.val)
                   THEN Append(held, [hdr |-> o.val, was |-> Items(o.heap, o.val),
                                      by |-> fn])
                   ELSE held
        /\ result' = [fn |-> fn, via |-> "",
                      of |-> [at |-> i, s |-> held[i].hdr, items |-> Items(heap, held[i].hdr),
                              vals |-> vals],
                      val |-> o.val, err |-> o.err]
        /\ UNCHANGED <<pc, allowedFunctions, rootCtx, m, gateVars, buildVars, execVars,
                       args, evals>>

\* {{ slice.Contains $s v }}
HeapContains(i, v) ==
    /\ pc = "heap"
    /\ Returned("Contains", i, <<v>>, Slice_Contains(heap, held[i].hdr, v))

\* {{ slice.Len $s }}
HeapLen(i) ==
    /\ pc = "heap"
    /\ Returned("Len", i, <<>>, Slice_Len(heap, held[i].hdr))

\* {{ $r := slice.Reverse $s }}
HeapReverse(i) ==
    /\ pc = "heap" /\ Len(held) < MaxHeld
    /\ Returned("Reverse", i, <<>>, Slice_Reverse(heap, held[i].hdr))

\* {{ $r := slice.Sort $s }}
HeapSort(i) ==
    /\ pc = "heap" /\ Len(held) < MaxHeld
    /\ Returned("Sort", i, <<>>, Slice_SortOf(heap, held[i].hdr))

\* {{ $r := slice.Unique $s }}
HeapUnique(i) ==
    /\ pc = "heap" /\ Len(held) < MaxHeld
    /\ Returned("Unique", i, <<>>, Slice_Unique(heap, held[i].hdr))

\* {{ $r := slice.Compact $s }}
HeapCompact(i) ==
    /\ pc = "heap" /\ Len(held) < MaxHeld
    /\ Returned("Compact", i, <<>>, Slice_CompactOf(heap, held[i].hdr))

\* {{ $r := slice.Append $s vals... }}
HeapAppend(i, vals) ==
    /\ pc = "heap" /\ Len(held) < MaxHeld
    /\ \E o \in Slice_Append(heap, held[i].hdr, vals) : Returned("Append", i, vals, o)

\* {{ $r := slice.Prepend $s vals... }}
HeapPrepend(i, vals) ==
    /\ pc = "heap" /\ Len(held) < MaxHeld
    /\ \E o \in Slice_Prepend(heap, held[i].hdr, vals) : Returned("Prepend", i, vals, o)

NextHeap ==
    \/ \E i \in DOMAIN held : \E v \in {Bob, IntV("int", 1)} : HeapContains(i, v)
    \/ \E i \in DOMAIN held : HeapLen(i)
    \/ \E i \in DOMAIN held : HeapReverse(i)
    \/ \E i \in DOMAIN held : HeapSort(i)
    \/ \E i \in DOMAIN held : HeapUnique(i)
    \/ \E i \in DOMAIN held : HeapCompact(i)
    \/ \E i \in DOMAIN held : \E vals \in SuppliedValues : HeapAppend(i, vals)
    \/ \E i \in DOMAIN held : \E vals \in SuppliedValues : HeapPrepend(i, vals)

SpecHeap == InitHeap /\ [][NextHeap]_vars

-----------------------------------------------------------------------------
(* Properties of the slice namespace on the heap *)

\* C22: no collection operation (Contains, Reverse, Sort, Append, Prepend,
\* Len, Unique, Compact) changes the elements, the order or the length of the
\* collection it was given, and after any sequence of them the collection the
\* template started with is element for element what it was.
C22_GivenCollectionUnchanged ==
    pc = "heap" =>
        /\ Items(heap, held[1].hdr) = held[1].was
        /\ result.fn # "" => Items(heap, result.of.s) = result.of.items

\* the unsorted ints 2, 1, 1 are still what the template started with after
\* Sort returned 1, 1, 2 and Reverse and Compact of the same collection ran
C22_Witness ==
    /\ pc = "heap"
    /\ Len(held) = 3
    /\ held[1].was = <<IntV("int", 2), IntV("int", 1), IntV("int", 1)>>
    /\ Items(heap, held[1].hdr) = held[1].was
    /\ Items(heap, held[2].hdr) = <<IntV("int", 1), IntV("int", 1), IntV("int", 2)>>
    /\ result.fn = "Compact" /\ result.of.at = 1
    /\ Items(heap, result.val) = <<IntV("int", 2), IntV("int", 1)>>

\* the scalar coercion to every element kind
CoercionTo(elem) ==
    CASE elem = "bool" -> "ToBool"
      [] elem = "string" -> "ToString"
      [] elem = "float32" -> "ToFloat32"
      [] elem = "float64" -> "ToFloat64"
      [] OTHER -> CHOOSE t \in IntegerTargets : KindOfTarget[t] = elem

\* Append or Prepend of a collection of one of kinds has returned the
\* elements it was given and the converted values, or failed with the
\* coercion error of a value
AddsConverted(kinds) ==
    (pc = "heap" /\ result.fn \in {"Append", "Prepend"} /\ result.of.s.elem \in kinds) =>
        LET elem == result.of.s.elem
            vals == result.of.vals
            was == result.of.items
            out == Items(heap, result.val)
            n == IF result.fn = "Append" THEN Len(was) ELSE 0
            mine == IF result.fn = "Append" THEN 0 ELSE Len(vals)
        IN  /\ result.err = "" =>
                /\ result.val.elem = elem
                /\ Len(out) = Len(was) + Len(vals)
                /\ \A k \in DOMAIN was : out[mine + k] = was[k]
                /\ \A k \in DOMAIN vals : Ok(out[n + k]) \in Conv_To(CoercionTo(elem), vals[k])
            /\ result.err # "" =>
                /\ result.val = NilHdr
                /\ \E k \in DOMAIN vals :
                      \E o \in Conv_To(CoercionTo(elem), vals[k]) : o.err = result.err
            /\ (\E k \in DOMAIN vals : \A o \in Conv_To(CoercionTo(elem), vals[k]) : o.err # "")
                  => result.err # ""

\* C23: Append on a typed collection returns a collection of the same element
\* kind holding the original elements followed by the supplied values, each
\* converted to that kind, in the order given; Prepend returns the converted
\* values followed by the original elements; if a supplied value cannot be
\* converted the call fails with that coercion error and returns no collection.
C23_AppendAddsConverted == AddsConverted(HomogeneousKinds)

-----------------------------------------------------------------------------
(* SpecPar: several evaluations run concurrently on templates that share one
   FuncMap, each on a writer of its own; a step is one node of one of them *)

\* most evaluations running at a time
MaxEvals == 2

TextNode(s) == [k |-> "text", s |-> s, fn |-> NoFunc, arg |-> "valid", v |-> NoValue]
CallNode(fn, arg) == [k |-> "call", s |-> "", fn |-> fn, arg |-> arg, v |-> NoValue]
ReturnNode(v) == [k |-> "return", s |-> "", fn |-> NoFunc, arg |-> "valid", v |-> v]
PanicNode == [k |-> "panic", s |-> "", fn |-> NoFunc, arg |-> "valid", v |-> NoValue]
ExecNode == [k |-> "exec", s |-> "", fn |-> NoFunc, arg |-> "valid", v |-> NoValue]
EndNode == [k |-> "end", s |-> "", fn |-> NoFunc, arg |-> "valid", v |-> NoValue]

\* the templates, as the nodes an evaluation walks; past the last node the
\* template in progress has no node left
Scripts ==
    {<<TextNode("Hello "), ReturnNode(Value("string", "World")), TextNode("!")>>,
     <<TextNode("Hello "), ExecNode, TextNode("x"), ReturnNode(Value("string", "Anonymous")),
       TextNode("!")>>,
     <<TextNode("Welcome, "), CallNode(StringsToLower, "valid"), TextNode("!")>>,
     <<CallNode(StringsIndex, "valid"), TextNode("!")>>,
     <<ExecNode, CallNode(StringsIndex, "valid"), TextNode("!")>>,
     <<ExecNode, TextNode("Hello "), EndNode, PanicNode, TextNode("!")>>}

\* xtemplate.Execute(tmpl, &buf, data) about to walk script
Started(script) ==
    [script |-> script, at |-> 1, pc |-> "running", wr |-> "", bufs |-> <<>>,
     err |-> NoError, ended |-> NotEnded]

\* what an error e of the node being walked does to the evaluation ev
raise(ev, e) ==
    LET p == propagate(e, ev.wr, ev.bufs, NoExec)
    IN  [ev EXCEPT !.wr = p.wr, !.bufs = p.bufs, !.err = p.err, !.pc = p.pc,
                   !.ended = p.ended]

\* the template in progress of ev has no node left
end(ev) ==
    IF ev.bufs = <<>>
    THEN [ev EXCEPT !.wr = Execute(NoError, ev.wr).wr, !.err = Execute(NoError, ev.wr).err,
                    !.pc = "done",
                    !.ended = [how |-> "end", value |-> NoValue, before |-> ev.wr]]
    ELSE LET outer == SubSeq(ev.bufs, 1, Len(ev.bufs) - 1)
             r == Tmpl_Exec(ev.bufs[Len(ev.bufs)], NoError)
         IN  [ev EXCEPT !.wr = Emit(Sprint(r.res), ev.wr, outer).wr,
                        !.bufs = Emit(Sprint(r.res), ev.wr, outer).bufs]

\* text/template walks the next node of ev with the rootContext ctx the
\* closures of the FuncMap share: the evaluation and the rootContext afterwards
walk(ev, ctx) ==
    LET node == IF ev.at > Len(ev.script) THEN EndNode ELSE ev.script[ev.at]
        at == [ev EXCEPT !.at = @ + 1]
        r == Invoke(NamespaceHandle(node.fn.Namespace, ctx), node.fn, node.arg)
    IN  CASE node.k = "text" ->
                [ev |-> [at EXCEPT !.wr = Emit(node.s, ev.wr, ev.bufs).wr,
                                   !.bufs = Emit(node.s, ev.wr, ev.bufs).bufs],
                 ctx |-> ctx]
          [] node.k = "call" ->
                [ev |-> IF r.err = NoError
                        THEN [at EXCEPT !.wr = Emit(Sprint(r.res), ev.wr, ev.bufs).wr,
                                        !.bufs = Emit(Sprint(r.res), ev.wr, ev.bufs).bufs]
                        ELSE raise(at, ExecError(r.err)),
                 ctx |-> [allowedFunctionSet |-> r.allowedFunctionSet]]
          [] node.k = "return" -> [ev |-> raise(at, ExecError(return(node.v).err)), ctx |-> ctx]
          [] node.k = "panic" -> [ev |-> raise(at, ExecError(PanicError)), ctx |-> ctx]
          [] node.k = "exec" -> [ev |-> [at EXCEPT !.bufs = Append(ev.bufs, "")], ctx |-> ctx]
          [] node.k = "end" -> [ev |-> end(at), ctx |-> ctx]

\* configurations that expose strings and tmpl
ParConfigs == {<<Safe>>, <<Functions(StringsToLower), Tmpl>>}

InitPar ==
    /\ pc = "config"
    /\ allowedFunctions \in ParConfigs
    /\ evals \in [1..MaxEvals -> {Started(script) : script \in Scripts}]
    /\ rootCtx = [allowedFunctionSet |-> {}]
    /\ m = {}
    /\ handle = NoHandle
    /\ last = NoCall
    /\ d1 = <<>> /\ d2 = <<>> /\ built = NotBuilt
    /\ NotExecuting
    /\ heap = <<>> /\ held = <<>>
    /\ NotApplied

\* one goroutine's evaluation walks its next node
ParStep(e) ==
    /\ pc = "ready"
    /\ evals[e].pc = "running"
    /\ evals' = [evals EXCEPT ![e] = walk(evals[e], rootCtx).ev]
    /\ rootCtx' = walk(evals[e], rootCtx).ctx
    /\ UNCHANGED <<heapVars, pc, allowedFunctions, m, gateVars, buildVars, pureVars, execVars>>

NextPar ==
    \/ Configure
    \/ \E e \in DOMAIN evals : ParStep(e)

SpecPar == InitPar /\ [][NextPar]_vars

\* the evaluation ev after n more nodes with no other evaluation running
RECURSIVE Alone(_, _, _)
Alone(ev, ctx, n) ==
    IF n = 0 \/ ev.pc = "done" THEN ev
    ELSE Alone(walk(ev, ctx).ev, walk(ev, ctx).ctx, n - 1)

C27_ReturnedCollectionsKeepElements ==
    pc = "heap" =>
        \A i \in DOMAIN held :
            held[i].by \in {"Append", "Prepend"} => Items(heap, held[i].hdr) = held[i].was

\* ------------------------------------------------------------------
\* Element kinds the slice methods accept
\* ------------------------------------------------------------------

\* The element kinds a method of the slice namespace is said to accept: every
\* homogeneous kind, and the heterogeneous one except for Sort and Compact.
AcceptedKinds(fn) ==
    IF fn \in {"Sort", "Compact"} THEN HomogeneousKinds ELSE HomogeneousKinds \cup {"any"}

\* The errors with which a method rejects its first argument as not a slice.
NotSliceErrors == {"ErrArgNotSlice", "ErrFirstArgumentMustBeSlice"}

\* C28: Contains, Reverse, Sort, Append, Prepend, Len, Unique and Compact accept
\* a collection of every supported element kind (boolean, string, every signed
\* and unsigned integer width including the platform-width ones, every float
\* width, and the heterogeneous kind except for Sort and Compact): none of them
\* rejects such a collection as not being a collection.
C28_EveryKindAccepted ==
    (pc = "heap" /\ result.fn # "" /\ result.of.s.elem \in AcceptedKinds(result.fn)) =>
        result.err \notin NotSliceErrors

-----------------------------------------------------------------------------
(* A return inside tmpl.Exec *)

\* the evaluations enclosing the innermost tmpl.Exec, as they stand once that
\* call has handed the text s to its caller
AfterInnermost(s) ==
    /\ pc' = "running"
    /\ execErr' = NoError
    /\ ended' = NotEnded
    /\ Len(bufs') = Len(bufs) - 1
    /\ IF Len(bufs) = 1
       THEN wr' = wr \o s
       ELSE /\ wr' = wr
            /\ bufs' = [SubSeq(bufs, 1, Len(bufs) - 1) EXCEPT
                            ![Len(bufs) - 1] = @ \o s]

\* C30: a return raised inside a sub-evaluation started by tmpl.Exec ends only
\* that innermost sub-evaluation: every enclosing evaluation, outer tmpl.Exec
\* calls and the top level, is still running after the call with what it had
\* emitted followed by the returned value, and a tmpl.Exec that ends later in
\* the same evaluation yields its own output whatever returned before it.
C30_ReturnEndsInnermostOnly ==
    [][/\ \A v \in ReturnValues :
             (Return(v) /\ bufs # <<>>) =>
                 /\ AfterInnermost(Sprint(v))
                 /\ lastExec'.how = "return"
                 /\ lastExec'.value = v
                 /\ lastExec'.err = NoError
       /\ (End /\ bufs # <<>>) =>
             /\ AfterInnermost(bufs[Len(bufs)])
             /\ lastExec'.how = "end"
             /\ lastExec'.res = Value("string", bufs[Len(bufs)])]_vars

\* `Hello {{ tmpl.Exec "T1" }}{{ tmpl.Exec "T2" }}`, T1 being
\* `{{ return "World" }}` and T2 being `!`, has been executed to its end
C30_Witness ==
    /\ pc = "done"
    /\ ended.how = "end"
    /\ execErr = NoError
    /\ raised = [err |-> ExecError(ReturnError(Value("string", "World"))), depth |-> 1]
    /\ lastExec.how = "end"
    /\ lastExec.emitted = "!"
    /\ wr = "Hello World!"

====
